---- MODULE Spec2Model ----
(***************************************************************************)
(* A model of the geometry column (geopandas/array.py), its spatial index  *)
(* (geopandas/sindex.py) and the spatial join helpers                      *)
(* (geopandas/tools/sjoin.py).                                             *)
(*                                                                         *)
(* Python values are records with a "kind" field.  Positions are 0-based,  *)
(* as in the source; a Python sequence s is a TLA+ sequence whose element  *)
(* at position i is s[i + 1].                                              *)
(***************************************************************************)
EXTENDS Integers, Sequences, FiniteSets, TLC

VARIABLES
    sindex,     \* the SpatialIndex object under test, or NoObject
    heap,       \* the numpy buffers: buffer id -> 1-D object array, or NoObject
    arrays,     \* the GeometryArray objects: object id -> GeometryArray, or NoObject
    call,       \* the call being made: its name and arguments
    ret         \* what that call returned or raised; NoObject while none is pending

vars == <<sindex, heap, arrays, call, ret>>

(***************************************************************************)
(* Bounds of the model.                                                    *)
(***************************************************************************)
MaxLen == 2     \* longest geometry array a column or an index is built from
MaxIn == 2      \* longest array-like handed to query() / nearest()
MaxArrays == 2  \* GeometryArray objects alive at once

(***************************************************************************)
(* Python values.                                                          *)
(***************************************************************************)
None == [kind |-> "None"]
NoObject == [kind |-> "NoObject"]
Raise(e) == [kind |-> "raise", exc |-> e]
NdArray1(r) == [kind |-> "ndarray", ndim |-> 1, data |-> r]
NdArray2(r0, r1) == [kind |-> "ndarray", ndim |-> 2, rows |-> <<r0, r1>>]
DataFrame(cols, rws) == [kind |-> "DataFrame", columns |-> cols, rows |-> rws]
PyTuple(t) == [kind |-> "tuple", items |-> t]
GeoSeries(index, data, name, crs) ==
    [kind |-> "GeoSeries", index |-> index, data |-> data, name |-> name, crs |-> crs]

At(s, i) == s[i + 1]
Positions(s) == 0 .. (Len(s) - 1)

SetMin(S) == CHOOSE m \in S : \A o \in S : m <= o
SetMax(S) == CHOOSE m \in S : \A o \in S : m >= o
Abs(n) == IF n < 0 THEN -n ELSE n
Pos0(n) == IF n < 0 THEN 0 ELSE n

(***************************************************************************)
(* The geometry library (shapely), as far as the index uses it.  A         *)
(* geometry is a multipoint (a finite nonempty set of integer points; a    *)
(* point is a multipoint of one), an axis-parallel rectangle of positive   *)
(* area (shapely.box), or the empty geometry.                              *)
(***************************************************************************)
EmptyGeom == [kind |-> "Empty"]
MultiPoint(S) == [kind |-> "MultiPoint", pts |-> S]
Point(x, y) == MultiPoint({<<x, y>>})
box(a, b, c, d) == [kind |-> "Polygon", minx |-> a, miny |-> b, maxx |-> c, maxy |-> d]

BaseGeometry(v) == v.kind \in {"Empty", "MultiPoint", "Polygon"}
is_empty(v) == v.kind = "Empty"
is_missing(v) == v.kind = "None"

bounds(g) ==
    IF g.kind = "Polygon"
    THEN [minx |-> g.minx, miny |-> g.miny, maxx |-> g.maxx, maxy |-> g.maxy]
    ELSE [minx |-> SetMin({p[1] : p \in g.pts}), miny |-> SetMin({p[2] : p \in g.pts}),
          maxx |-> SetMax({p[1] : p \in g.pts}), maxy |-> SetMax({p[2] : p \in g.pts})]

\* the envelope of g grown by d on every side (d = 0: the envelope itself)
Expand(b, d) ==
    [minx |-> b.minx - d, miny |-> b.miny - d, maxx |-> b.maxx + d, maxy |-> b.maxy + d]

BoxesIntersect(a, b) ==
    /\ a.minx <= b.maxx /\ b.minx <= a.maxx
    /\ a.miny <= b.maxy /\ b.miny <= a.maxy

\* where point p lies with respect to the rectangle r
InClosed(r, p) == r.minx <= p[1] /\ p[1] <= r.maxx /\ r.miny <= p[2] /\ p[2] <= r.maxy
InInterior(r, p) == r.minx < p[1] /\ p[1] < r.maxx /\ r.miny < p[2] /\ p[2] < r.maxy

\* squared distance between two geometries
SqDistPointPoint(p, q) == (p[1] - q[1]) * (p[1] - q[1]) + (p[2] - q[2]) * (p[2] - q[2])
SqDistBoxPoint(r, p) ==
    LET dx == Pos0(SetMax({r.minx - p[1], p[1] - r.maxx}))
        dy == Pos0(SetMax({r.miny - p[2], p[2] - r.maxy}))
    IN dx * dx + dy * dy
SqDistBoxBox(r, s) ==
    LET dx == Pos0(SetMax({r.minx - s.maxx, s.minx - r.maxx}))
        dy == Pos0(SetMax({r.miny - s.maxy, s.miny - r.maxy}))
    IN dx * dx + dy * dy
SqDistance(a, b) ==
    IF a.kind = "Polygon" /\ b.kind = "Polygon" THEN SqDistBoxBox(a, b)
    ELSE IF a.kind = "Polygon" THEN SetMin({SqDistBoxPoint(a, p) : p \in b.pts})
    ELSE IF b.kind = "Polygon" THEN SetMin({SqDistBoxPoint(b, p) : p \in a.pts})
    ELSE SetMin({SqDistPointPoint(p, q) : p \in a.pts, q \in b.pts})

(***************************************************************************)
(* The binary predicates, predicate(a, b), for non-empty a and b (DE-9IM:  *)
(* every point of a multipoint is interior, a rectangle has its open       *)
(* inside as interior and its outline as boundary).                        *)
(***************************************************************************)
intersects(a, b) ==
    IF a.kind = "Polygon" /\ b.kind = "Polygon" THEN BoxesIntersect(a, b)
    ELSE IF a.kind = "Polygon" THEN \E p \in b.pts : InClosed(a, p)
    ELSE IF b.kind = "Polygon" THEN \E p \in a.pts : InClosed(b, p)
    ELSE a.pts \cap b.pts # {}

\* no point of b outside a
covers(a, b) ==
    IF a.kind = "Polygon" /\ b.kind = "Polygon"
    THEN a.minx <= b.minx /\ b.maxx <= a.maxx /\ a.miny <= b.miny /\ b.maxy <= a.maxy
    ELSE IF a.kind = "Polygon" THEN \A p \in b.pts : InClosed(a, p)
    ELSE IF b.kind = "Polygon" THEN FALSE
    ELSE b.pts \subseteq a.pts

\* covers, and the interiors meet
contains(a, b) ==
    /\ covers(a, b)
    /\ (a.kind = "Polygon" /\ b.kind = "MultiPoint") => \E p \in b.pts : InInterior(a, p)

\* every point of b in the interior of a
contains_properly(a, b) ==
    IF a.kind = "Polygon" /\ b.kind = "Polygon"
    THEN a.minx < b.minx /\ b.maxx < a.maxx /\ a.miny < b.miny /\ b.maxy < a.maxy
    ELSE IF a.kind = "Polygon" THEN \A p \in b.pts : InInterior(a, p)
    ELSE IF b.kind = "Polygon" THEN FALSE
    ELSE b.pts \subseteq a.pts

within(a, b) == contains(b, a)
covered_by(a, b) == covers(b, a)

InteriorsMeet(a, b) ==
    IF a.kind = "Polygon" /\ b.kind = "Polygon"
    THEN /\ a.minx < b.maxx /\ b.minx < a.maxx
         /\ a.miny < b.maxy /\ b.miny < a.maxy
    ELSE IF a.kind = "Polygon" THEN \E p \in b.pts : InInterior(a, p)
    ELSE IF b.kind = "Polygon" THEN \E p \in a.pts : InInterior(b, p)
    ELSE a.pts \cap b.pts # {}

touches(a, b) == intersects(a, b) /\ ~InteriorsMeet(a, b)

\* same dimension, interiors meet, neither covers the other
overlaps(a, b) ==
    /\ a.kind = b.kind
    /\ InteriorsMeet(a, b)
    /\ ~covers(a, b) /\ ~covers(b, a)

\* different dimension: the lower one has interior points inside and outside the other
crosses(a, b) ==
    IF a.kind = "Polygon" /\ b.kind = "MultiPoint"
    THEN (\E p \in b.pts : InInterior(a, p)) /\ (\E p \in b.pts : ~InClosed(a, p))
    ELSE IF a.kind = "MultiPoint" /\ b.kind = "Polygon"
    THEN (\E p \in a.pts : InInterior(b, p)) /\ (\E p \in a.pts : ~InClosed(b, p))
    ELSE FALSE

dwithin(a, b, d) == d >= 0 /\ SqDistance(a, b) <= d * d

BinaryPredicate ==
    {"intersects", "within", "contains", "overlaps", "crosses", "touches",
     "covers", "covered_by", "contains_properly"}

Holds(p, a, b, d) ==
    CASE p = "intersects" -> intersects(a, b)
      [] p = "within" -> within(a, b)
      [] p = "contains" -> contains(a, b)
      [] p = "overlaps" -> overlaps(a, b)
      [] p = "crosses" -> crosses(a, b)
      [] p = "touches" -> touches(a, b)
      [] p = "covers" -> covers(a, b)
      [] p = "covered_by" -> covered_by(a, b)
      [] p = "contains_properly" -> contains_properly(a, b)
      [] p = "dwithin" -> dwithin(a, b, d)
      [] OTHER -> FALSE


(***************************************************************************)
(* Sequences of numbers.                                                   *)
(***************************************************************************)
Str(s) == [kind |-> "str", v |-> s]
Num(n) == [kind |-> "int", v |-> n]
Bool(b) == [kind |-> "bool", v |-> b]

RECURSIVE Insert(_, _)
Insert(s, x) ==
    IF s = <<>> THEN <<x>>
    ELSE IF x <= Head(s) THEN <<x>> \o s
    ELSE <<Head(s)>> \o Insert(Tail(s), x)

RECURSIVE SortAsc(_)
SortAsc(s) == IF s = <<>> THEN <<>> ELSE Insert(SortAsc(Tail(s)), Head(s))

\* np.sort(a, axis=1) of a 2 x k array: every row is sorted on its own
np_sort_axis1(a) == NdArray2(SortAsc(a.rows[1]), SortAsc(a.rows[2]))

\* the orders in which a tree over n items can visit its leaves
LeafOrders(n) ==
    {o \in [1 .. n -> 0 .. (n - 1)] : \A i, j \in 1 .. n : o[i] = o[j] => i = j}

(***************************************************************************)
(* shapely.STRtree: the bounding-box tree.  None and empty items keep      *)
(* their position and are not inserted.  A bulk query visits the inputs    *)
(* in order and, for each, the leaves in the order of the packed tree,     *)
(* which the library does not specify.                                     *)
(***************************************************************************)
STRtree(items, order) == [items |-> items, order |-> order]

Indexed(t) == BaseGeometry(t) /\ ~is_empty(t)

\* len(tree): the number of geometries inserted, the None and empty items not
\* counted
STRtree_len(tree) ==
    Cardinality({i \in 1 .. Len(tree.items) : Indexed(tree.items[i])})

\* one input geometry g against one tree item t
STRtree_match(g, t, predicate, distance) ==
    /\ Indexed(g)
    /\ Indexed(t)
    /\ BoxesIntersect(
           Expand(bounds(g), IF predicate = Str("dwithin") THEN distance.v ELSE 0),
           bounds(t))
    /\ predicate # None => Holds(predicate.v, g, t, IF distance = None THEN 0 ELSE distance.v)

\* STRtree.query(geometry, predicate, distance) for an array of geometries
STRtree_query(tree, geoms, predicate, distance) ==
    LET n == Len(tree.items)
        m == Len(geoms)
        AllPairs == [k \in 1 .. (m * n) |->
                        <<(k - 1) \div n, tree.order[((k - 1) % n) + 1]>>]
        Hit(pr) == STRtree_match(At(geoms, pr[1]), At(tree.items, pr[2]),
                                 predicate, distance)
        Matched == SelectSeq(AllPairs, Hit)
    IN NdArray2([k \in 1 .. Len(Matched) |-> Matched[k][1]],
                [k \in 1 .. Len(Matched) |-> Matched[k][2]])

\* STRtree.nearest(geometry) takes the geometry alone: a call with the keywords
\* return_all, max_distance, exclusive is rejected before anything is searched
STRtree_nearest(tree, geoms, return_all, max_distance, exclusive) ==
    Raise("TypeError")

(***************************************************************************)
(* geopandas/sindex.py: SpatialIndex.                                      *)
(***************************************************************************)
GEOS_GE_310 == TRUE

PREDICATES ==
    {Str(p) : p \in BinaryPredicate} \cup {None}
        \cup (IF GEOS_GE_310 THEN {Str("dwithin")} ELSE {})

\* an index that drops the empty and missing entries instead of keeping a placeholder
SpatialIndex_compacting(geometry, order) ==
    LET kept == SelectSeq(geometry, Indexed)
        InRange(i) == i < Len(kept)
    IN [kind |-> "SpatialIndex",
        _tree |-> STRtree(kept, SelectSeq(order, InRange)),
        geometries |-> geometry]

\* SpatialIndex.__init__(geometry); order is the leaf order of the tree built
SpatialIndex(geometry, order) ==
    LET non_empty == [i \in 1 .. Len(geometry) |->
                        IF BaseGeometry(geometry[i]) /\ is_empty(geometry[i])
                        THEN None ELSE geometry[i]]
    IN [kind |-> "SpatialIndex",
        _tree |-> STRtree(non_empty, order),
        geometries |-> geometry]

valid_query_predicates(self) == PREDICATES

\* SpatialIndex.size: len(self._tree)
size(self) == STRtree_len(self._tree)

\* SpatialIndex.is_empty: len(self._tree) == 0
sindex_is_empty(self) == STRtree_len(self._tree) = 0

PyList(items) == [kind |-> "list", items |-> items]
GeometryArrayArg(data) == [kind |-> "GeometryArray", _data |-> data]

\* SpatialIndex._as_geometry_array(geometry): an ndarray of geometries, or the error
_as_geometry_array(geometry) ==
    IF BaseGeometry(geometry) THEN NdArray1(<<geometry>>)
    ELSE IF geometry.kind = "GeometryArray" THEN Raise("AttributeError")
    ELSE IF geometry.kind = "GeoSeries" THEN NdArray1(geometry.data)
    ELSE IF geometry.kind = "ndarray"
    THEN IF Len(geometry.data) = 0 THEN Raise("IndexError")
         ELSE IF BaseGeometry(geometry.data[1]) THEN geometry
         ELSE Raise("ValueError")
    ELSE IF geometry.kind = "list"
            /\ \A i \in 1 .. Len(geometry.items) : BaseGeometry(geometry.items[i])
    THEN NdArray1(geometry.items)
    ELSE Raise("ValueError")

\* a query that takes the distance search whenever a distance is given
query_dispatch_on_distance(self, geometry, predicate, sort, distance, output_format) ==
    LET geometry_array == _as_geometry_array(geometry)
    IN  IF geometry_array.kind = "raise" THEN geometry_array
        ELSE IF predicate = Str("dwithin") /\ distance = None THEN Raise("ValueError")
        ELSE IF predicate \notin valid_query_predicates(self) THEN Raise("ValueError")
        ELSE LET found == STRtree_query(self._tree, geometry_array.data,
                              IF predicate # None /\ distance # None
                              THEN Str("dwithin") ELSE predicate,
                              distance)
                 result == IF sort THEN np_sort_axis1(found) ELSE found
             IN  IF output_format = "tuple" THEN result
                 ELSE IF output_format = "pandas"
                 THEN DataFrame(<<"input_index", "tree_index">>,
                                [k \in 1 .. Len(result.rows[1]) |->
                                    <<result.rows[1][k], result.rows[2][k]>>])
                 ELSE Raise("ValueError")

\* SpatialIndex.query(geometry, predicate, sort, distance, output_format)
query(self, geometry, predicate, sort, distance, output_format) ==
    LET geometry_array == _as_geometry_array(geometry)
    IN  IF geometry_array.kind = "raise" THEN geometry_array
        ELSE IF predicate = Str("dwithin") /\ distance = None THEN Raise("ValueError")
        ELSE IF predicate \notin valid_query_predicates(self) THEN Raise("ValueError")
        ELSE LET found == STRtree_query(self._tree, geometry_array.data,
                                        predicate, distance)
                 result == IF sort THEN np_sort_axis1(found) ELSE found
             IN  IF output_format = "tuple" THEN result
                 ELSE IF output_format = "pandas"
                 THEN DataFrame(<<"input_index", "tree_index">>,
                                [k \in 1 .. Len(result.rows[1]) |->
                                    <<result.rows[1][k], result.rows[2][k]>>])
                 ELSE Raise("ValueError")

\* SpatialIndex.nearest(geometry, return_all, max_distance, return_distance, exclusive)
nearest(self, geometry, return_all, max_distance, return_distance, exclusive) ==
    LET geometry_array == _as_geometry_array(geometry)
    IN  IF geometry_array.kind = "raise" THEN geometry_array
        ELSE IF max_distance # None /\ max_distance.v <= 0 THEN Raise("ValueError")
        ELSE LET result == STRtree_nearest(self._tree, geometry_array.data,
                                           return_all, max_distance, exclusive)
             IN  IF result.kind = "raise" THEN result
                 ELSE IF return_distance
                 THEN PyTuple(<<result.items[1], result.items[2]>>)
                 ELSE result

\* SpatialIndex.intersection(coordinates)
intersection(self, coordinates) ==
    IF Len(coordinates) = 2
    THEN query(self, Point(coordinates[1], coordinates[2]), None, FALSE, None, "tuple")
    ELSE IF Len(coordinates) = 4
    THEN query(self, box(coordinates[1], coordinates[2], coordinates[3], coordinates[4]),
               None, FALSE, None, "tuple")
    ELSE Raise("ValueError")


(***************************************************************************)
(* The index under test: the arrays it is built from and the calls made    *)
(* on it.                                                                  *)
(***************************************************************************)
SeqsOf(S, lo, hi) == UNION {[1 .. n -> S] : n \in lo .. hi}

\* entries of the array an index is built from
TreeGeoms ==
    {None, EmptyGeom, Point(0, 0), Point(5, 5), MultiPoint({<<0, 0>>, <<5, 5>>})}

\* entries of an array-like handed to query() and nearest()
ArrGeoms == {None, EmptyGeom, Point(0, 0), box(-10, -10, 10, 10)}

\* single arguments of query() and nearest()
ScalarArgs == ArrGeoms \cup {Point(2, 2), box(-1, -1, 1, 1)}

GeometryArgs ==
    ScalarArgs
        \cup {PyList(s) : s \in SeqsOf(ArrGeoms, 1, MaxIn)}
        \cup {NdArray1(s) : s \in SeqsOf(ArrGeoms, 0, MaxIn)}
        \cup {GeometryArrayArg(s) : s \in SeqsOf(ArrGeoms, 1, MaxIn)}

PredicateArgs == PREDICATES \cup {Str("bogus")}
DistanceArgs == {None, Num(0), Num(8)}

\* the option combinations query() is called with
QueryOptions ==
    {[predicate |-> p, distance |-> None, sort |-> FALSE, output_format |-> "tuple"] :
        p \in PredicateArgs}
    \cup {[predicate |-> p, distance |-> d, sort |-> FALSE, output_format |-> "tuple"] :
        p \in {Str("dwithin"), Str("intersects")}, d \in DistanceArgs}
    \cup {[predicate |-> p, distance |-> None, sort |-> TRUE, output_format |-> "tuple"] :
        p \in {None, Str("intersects")}}
    \cup {[predicate |-> None, distance |-> None, sort |-> b, output_format |-> f] :
        b \in BOOLEAN, f \in {"pandas", "geopandas"}}

\* the option combinations nearest() is called with
NearestOptions ==
    [return_all : {TRUE}, max_distance : DistanceArgs,
     return_distance : BOOLEAN, exclusive : {FALSE}]

IndexInit ==
    \E geometry \in SeqsOf(TreeGeoms, 0, MaxLen) :
        \E order \in LeafOrders(Len(geometry)) :
            /\ sindex = SpatialIndex(geometry, order)
            /\ call = [op |-> "__init__", geometry |-> NdArray1(geometry)]
            /\ ret = NoObject
            /\ heap = <<>>
            /\ arrays = <<>>

Query ==
    \E geometry \in GeometryArgs, o \in QueryOptions :
        /\ ret = NoObject
        /\ call' = [op |-> "query", geometry |-> geometry, predicate |-> o.predicate,
                    sort |-> o.sort, distance |-> o.distance,
                    output_format |-> o.output_format]
        /\ ret' = query(sindex, geometry, o.predicate, o.sort, o.distance,
                        o.output_format)
        /\ UNCHANGED <<sindex, heap, arrays>>

Nearest ==
    \E geometry \in GeometryArgs, o \in NearestOptions :
        /\ ret = NoObject
        /\ call' = [op |-> "nearest", geometry |-> geometry,
                    return_all |-> o.return_all, max_distance |-> o.max_distance,
                    return_distance |-> o.return_distance, exclusive |-> o.exclusive]
        /\ ret' = nearest(sindex, geometry, o.return_all, o.max_distance,
                          o.return_distance, o.exclusive)
        /\ UNCHANGED <<sindex, heap, arrays>>

Intersection ==
    \E coordinates \in {<<0, 0>>, <<-1, -1, 1, 1>>, <<-10, -10, 10, 10>>, <<0, 0, 0>>} :
        /\ ret = NoObject
        /\ call' = [op |-> "intersection", coordinates |-> coordinates]
        /\ ret' = intersection(sindex, coordinates)
        /\ UNCHANGED <<sindex, heap, arrays>>

Size ==
    /\ ret = NoObject
    /\ call' = [op |-> "size"]
    /\ ret' = Num(size(sindex))
    /\ UNCHANGED <<sindex, heap, arrays>>

IsEmpty ==
    /\ ret = NoObject
    /\ call' = [op |-> "is_empty"]
    /\ ret' = Bool(sindex_is_empty(sindex))
    /\ UNCHANGED <<sindex, heap, arrays>>

\* the caller takes the result; the index is ready for the next call
Return ==
    /\ ret # NoObject
    /\ call' = [op |-> "idle"]
    /\ ret' = NoObject
    /\ UNCHANGED <<sindex, heap, arrays>>

IndexNext == Query \/ Nearest \/ Intersection \/ Size \/ IsEmpty \/ Return

Init == IndexInit
Next == IndexNext
Spec == Init /\ [][Next]_vars


(***************************************************************************)
(* geopandas/array.py: GeometryArray.  An object holds a reference to a    *)
(* numpy array (_data): a buffer of the heap and the buffer positions the  *)
(* array maps, in order.  A basic slice of an array is a view of the same  *)
(* buffer; indexing with a list of integers copies.                        *)
(***************************************************************************)
NaN == [kind |-> "float", v |-> "nan"]
Ref(id) == [kind |-> "ref", id |-> id]
Slice(a, b) == [kind |-> "slice", start |-> a, stop |-> b]
Mask(items) == [kind |-> "mask", items |-> items]

\* a GeometryArray over the whole of a fresh array
GeometryArrayOver(data) == [kind |-> "GeometryArray", _data |-> data]

\* the GeometryArray object: _data is (buf, view)
GeometryArrayObject(buf, view, sidx, crs) ==
    [kind |-> "GeometryArray", buf |-> buf, view |-> view, _sindex |-> sidx, _crs |-> crs]

\* the elements of the array self._data, read through the heap h
DataIn(h, self) == [k \in 1 .. Len(self.view) |-> h[self.buf].data[self.view[k] + 1]]

\* isna(value)
isna(value) == value = None \/ value = NaN

\* the crs setter: its body is empty, it stores nothing
crs_setter(self, value) == self

\* the crs getter: its body is empty, it returns None
crs_getter(self) == None

\* GeometryArray.has_sindex: its body is empty, it returns None
has_sindex(self) == None

\* from_shapely wrapping its input without validating it
from_shapely_unvalidated(data, crs) ==
    GeometryArrayOver(IF data.kind = "list" THEN data.items ELSE data.data)

\* from_shapely(data, crs) for a list or an array: np.array(data, dtype=object)
\* of a list of lists has two dimensions; the validated array wrapped, or the
\* error
from_shapely(data, crs) ==
    LET elems == IF data.kind = "list" THEN data.items ELSE data.data
    IN  IF data.kind = "list" /\ Len(elems) > 0
           /\ \A i \in 1 .. Len(elems) : elems[i].kind = "list"
        THEN Raise("ValueError")
        ELSE IF \E i \in 1 .. Len(elems) :
                    elems[i] # None /\ ~BaseGeometry(elems[i])
        THEN Raise("TypeError")
        ELSE GeometryArrayOver(elems)

\* pd.api.indexers.check_array_indexer(array, indexer): a boolean indexer is
\* compared with len(array), and GeometryArray.__len__ reads self.shape, which
\* the class does not define: the inherited shape is (len(self),)
check_array_indexer(self, indexer) ==
    IF indexer.kind = "mask" THEN Raise("RecursionError") ELSE indexer

\* numpy: the positions of an array of n elements that a key selects, in order
Positions0(at) == [kind |-> "positions", at |-> at]
np_positions(n, key) ==
    IF key.kind = "int"
    THEN IF key.v >= -n /\ key.v < n
         THEN Positions0(<<IF key.v < 0 THEN key.v + n ELSE key.v>>)
         ELSE Raise("IndexError")
    ELSE IF key.kind = "slice"
    THEN Positions0([k \in 1 .. Pos0(SetMin({key.stop, n}) - key.start) |->
                        key.start + k - 1])
    ELSE IF \E i \in 1 .. Len(key.items) : key.items[i] < -n \/ key.items[i] >= n
    THEN Raise("IndexError")
    ELSE Positions0([k \in 1 .. Len(key.items) |->
                        IF key.items[k] < 0 THEN key.items[k] + n ELSE key.items[k]])

\* numpy: array[key] = values, for the array (buf, view) of self; values of
\* length 1 are broadcast, a shape mismatch is reported before an index out of
\* range; the heap after the assignment, or the error
np_assign(h, self, key, values) ==
    LET n == Len(self.view)
        count == IF key.kind = "list" THEN Len(key.items)
                 ELSE IF key.kind = "slice"
                 THEN Pos0(SetMin({key.stop, n}) - key.start)
                 ELSE 1
        sel == np_positions(n, key)
    IN  IF Len(values) # 1 /\ Len(values) # count THEN Raise("ValueError")
        ELSE IF sel.kind = "raise" THEN sel
        ELSE LET Target(t) == self.view[sel.at[t] + 1]
                 Written == {Target(t) : t \in 1 .. Len(sel.at)}
                 Last(p) == SetMax({t \in 1 .. Len(sel.at) : Target(t) = p})
                 Value(t) == IF Len(values) = 1 THEN values[1] ELSE values[t]
             IN  [kind |-> "heap",
                  heap |-> [h EXCEPT ![self.buf].data =
                               [q \in 1 .. Len(h[self.buf].data) |->
                                   IF (q - 1) \in Written THEN Value(Last(q - 1))
                                   ELSE h[self.buf].data[q]]]]

\* __setitem__ dropping the cached index before it validates key and value
__setitem___clearing_first(h, self, key, value) ==
    LET k == check_array_indexer(self, key)
        v == IF value.kind \in {"list", "ndarray"} THEN from_shapely(value, None)
             ELSE value
        Failed(e) == [heap |-> h, self |-> [self EXCEPT !._sindex = None], ret |-> e]
        Stored(w) == IF w.kind = "raise" THEN Failed(w)
                     ELSE [heap |-> w.heap, self |-> [self EXCEPT !._sindex = None],
                           ret |-> None]
    IN  IF k.kind = "raise" THEN Failed(k)
        ELSE IF v.kind = "raise" THEN Failed(v)
        ELSE IF v.kind = "GeometryArray"
        THEN IF k.kind = "int" THEN Failed(Raise("ValueError"))
             ELSE Stored(np_assign(h, self, k, v._data))
        ELSE IF BaseGeometry(v) \/ isna(v)
        THEN Stored(np_assign(h, self, k, <<IF isna(v) THEN None ELSE v>>))
        ELSE Failed(Raise("TypeError"))

\* GeometryArray.__setitem__(key, value): the heap and the object afterwards, and
\* what the call returned or raised
__setitem__(h, self, key, value) ==
    LET k == check_array_indexer(self, key)
        v == IF value.kind \in {"list", "ndarray"} THEN from_shapely(value, None)
             ELSE value
        Failed(e) == [heap |-> h, self |-> self, ret |-> e]
        Stored(w) == IF w.kind = "raise" THEN Failed(w)
                     ELSE [heap |-> w.heap, self |-> [self EXCEPT !._sindex = None],
                           ret |-> None]
    IN  IF k.kind = "raise" THEN Failed(k)
        ELSE IF v.kind = "raise" THEN Failed(v)
        ELSE IF v.kind = "GeometryArray"
        THEN IF k.kind = "int" THEN Failed(Raise("ValueError"))
             ELSE Stored(np_assign(h, self, k, v._data))
        ELSE IF BaseGeometry(v) \/ isna(v)
        THEN Stored(np_assign(h, self, k, <<IF isna(v) THEN None ELSE v>>))
        ELSE Failed(Raise("TypeError"))

\* GeometryArray.__getitem__(idx): an element, a view of self._data, a copy of
\* the selected elements, or the error
__getitem__(h, self, idx) ==
    IF idx.kind = "int"
    THEN LET sel == np_positions(Len(self.view), idx)
         IN  IF sel.kind = "raise" THEN sel ELSE DataIn(h, self)[sel.at[1] + 1]
    ELSE LET k == check_array_indexer(self, idx)
             sel == np_positions(Len(self.view), k)
         IN  IF k.kind = "raise" THEN k
             ELSE IF sel.kind = "raise" THEN sel
             ELSE IF k.kind = "slice"
             THEN [kind |-> "view",
                   view |-> [t \in 1 .. Len(sel.at) |-> self.view[sel.at[t] + 1]],
                   crs |-> crs_getter(self)]
             ELSE [kind |-> "copy",
                   data |-> [t \in 1 .. Len(sel.at) |-> DataIn(h, self)[sel.at[t] + 1]],
                   crs |-> crs_getter(self)]

\* the sindex accessor of a column: the cached index, built from the backing
\* array on the first access (order: the leaf order of the tree built)
sindex_getter(h, self, order) ==
    IF self._sindex = None
    THEN [self EXCEPT !._sindex = SpatialIndex(DataIn(h, self), order)]
    ELSE self

(***************************************************************************)
(* The column machine: GeometryArray objects over a heap of numpy arrays.  *)
(***************************************************************************)
ColGeoms == {None, Point(0, 0)}
ColumnLists ==
    {PyList(s) : s \in SeqsOf(ColGeoms, 1, MaxLen)}
        \cup {PyList(<<Str("x")>>), PyList(<<PyList(<<Point(5, 5)>>)>>),
              PyList(<<Point(0, 0), NaN>>), PyList(<<PyList(<<Str("x")>>)>>)}
SetScalars == {None, NaN, Point(5, 5), Str("x")}
SetLists ==
    {PyList(<<Point(5, 5)>>), PyList(<<Point(5, 5), None>>),
     PyList(<<Str("x")>>), PyList(<<PyList(<<Point(5, 5)>>)>>),
     PyList(<<PyList(<<Str("x")>>)>>)}
Keys ==
    {Num(k) : k \in -1 .. MaxLen}
        \cup {Slice(a, b) : a \in 0 .. MaxLen - 1, b \in 1 .. MaxLen}
        \cup {PyList(<<0>>), PyList(<<1>>), PyList(<<1, 0>>)}
        \cup {Mask(<<TRUE>>)}

ColumnCRSs == {None, Str("EPSG:4326")}

Live == {i \in DOMAIN arrays : arrays[i] # NoObject}
Free == {i \in DOMAIN arrays : arrays[i] = NoObject}
WholeView(n) == [k \in 1 .. n |-> k - 1]
Data(id) == DataIn(heap, arrays[id])

\* GeometryArray.__init__(data, crs) over the array (buf, view): the crs given
\* goes through the crs setter, which stores nothing
GeometryArray__init__(buf, view, crs) ==
    crs_setter(GeometryArrayObject(buf, view, None, None), crs)

ColumnInit ==
    \E data \in SeqsOf(ColGeoms, 1, MaxLen) :
        /\ heap = <<NdArray1(data)>>
        /\ arrays = [i \in 1 .. MaxArrays |->
                        IF i = 1
                        THEN GeometryArray__init__(1, WholeView(Len(data)), None)
                        ELSE NoObject]
        /\ sindex = NoObject
        /\ call = [op |-> "from_shapely", data |-> PyList(data)]
        /\ ret = NoObject

\* from_shapely(data, crs): a new array and a GeometryArray over it
FromShapely ==
    /\ ret = NoObject
    /\ Free # {}
    /\ \E data \in ColumnLists, crs \in ColumnCRSs :
         LET r == from_shapely(data, crs)
             id == SetMin(Free)
         IN  /\ call' = [op |-> "from_shapely", data |-> data, crs |-> crs]
             /\ IF r.kind = "raise"
                THEN /\ ret' = r
                     /\ UNCHANGED <<heap, arrays>>
                ELSE /\ heap' = Append(heap, NdArray1(r._data))
                     /\ arrays' = [arrays EXCEPT ![id] =
                           GeometryArray__init__(Len(heap) + 1,
                                                 WholeView(Len(r._data)), crs)]
                     /\ ret' = Ref(id)
    /\ UNCHANGED sindex

\* GeometryArray(data): of a GeometryArray, a second object over the same
\* array; of a list, TypeError
Construct ==
    /\ ret = NoObject
    /\ Free # {}
    /\ \E data \in {Ref(i) : i \in Live} \cup SetLists :
         /\ call' = [op |-> "GeometryArray", data |-> data]
         /\ IF data.kind = "ref"
            THEN /\ arrays' = [arrays EXCEPT ![SetMin(Free)] =
                       GeometryArray__init__(arrays[data.id].buf,
                                             arrays[data.id].view,
                                             crs_getter(arrays[data.id]))]
                 /\ ret' = Ref(SetMin(Free))
            ELSE /\ ret' = Raise("TypeError")
                 /\ UNCHANGED arrays
    /\ UNCHANGED <<sindex, heap>>

\* self[idx]
GetItem ==
    /\ ret = NoObject
    /\ \E id \in Live, idx \in Keys :
         LET r == __getitem__(heap, arrays[id], idx)
         IN  /\ call' = [op |-> "__getitem__", self |-> id, idx |-> idx]
             /\ IF r.kind = "view"
                THEN /\ Free # {}
                     /\ arrays' = [arrays EXCEPT ![SetMin(Free)] =
                           GeometryArray__init__(arrays[id].buf, r.view, r.crs)]
                     /\ ret' = Ref(SetMin(Free))
                     /\ UNCHANGED heap
                ELSE IF r.kind = "copy"
                THEN /\ Free # {}
                     /\ heap' = Append(heap, NdArray1(r.data))
                     /\ arrays' = [arrays EXCEPT ![SetMin(Free)] =
                           GeometryArray__init__(Len(heap) + 1,
                                                 WholeView(Len(r.data)), r.crs)]
                     /\ ret' = Ref(SetMin(Free))
                ELSE /\ ret' = r
                     /\ UNCHANGED <<heap, arrays>>
    /\ UNCHANGED sindex

\* self[key] = value
SetItem ==
    /\ ret = NoObject
    /\ \E id \in Live, key \in Keys,
          value \in SetScalars \cup SetLists \cup {Ref(i) : i \in Live} :
         LET v == IF value.kind = "ref" THEN GeometryArrayOver(Data(value.id))
                  ELSE value
             r == __setitem__(heap, arrays[id], key, v)
         IN  /\ call' = [op |-> "__setitem__", self |-> id, key |-> key,
                         value |-> value]
             /\ heap' = r.heap
             /\ arrays' = [arrays EXCEPT ![id] = r.self]
             /\ ret' = r.ret
    /\ UNCHANGED sindex

\* self.sindex
SindexGet ==
    /\ ret = NoObject
    /\ \E id \in Live :
         \E order \in LeafOrders(Len(arrays[id].view)) :
            LET self == sindex_getter(heap, arrays[id], order)
            IN  /\ call' = [op |-> "sindex", self |-> id,
                            cached |-> arrays[id]._sindex]
                /\ arrays' = [arrays EXCEPT ![id] = self]
                /\ ret' = self._sindex
    /\ UNCHANGED <<sindex, heap>>

\* self.has_sindex
HasSindex ==
    /\ ret = NoObject
    /\ \E id \in Live :
         /\ call' = [op |-> "has_sindex", self |-> id]
         /\ ret' = has_sindex(arrays[id])
    /\ UNCHANGED <<sindex, heap, arrays>>

\* self.crs = value
CrsSet ==
    /\ ret = NoObject
    /\ \E id \in Live, value \in ColumnCRSs :
         /\ call' = [op |-> "crs.setter", self |-> id, value |-> value]
         /\ arrays' = [arrays EXCEPT ![id] = crs_setter(arrays[id], value)]
         /\ ret' = None
    /\ UNCHANGED <<sindex, heap>>

\* self.crs
CrsGet ==
    /\ ret = NoObject
    /\ \E id \in Live :
         /\ call' = [op |-> "crs", self |-> id]
         /\ ret' = crs_getter(arrays[id])
    /\ UNCHANGED <<sindex, heap, arrays>>

ColumnNext ==
    \/ FromShapely
    \/ Construct
    \/ GetItem
    \/ SetItem
    \/ SindexGet
    \/ HasSindex
    \/ CrsSet
    \/ CrsGet
    \/ Return

SpecColumn == ColumnInit /\ [][ColumnNext]_vars

(***************************************************************************)
(* geopandas/tools/sjoin.py.  A frame is a sequence of rows, each carrying *)
(* an attribute and a geometry; attributes are distinct within a frame.    *)
(***************************************************************************)
MaxRows == 2
Inf == [kind |-> "float", v |-> "inf"]
GeoDataFrame(rws) == [kind |-> "GeoDataFrame", rows |-> rws]
Row(attr, geometry) == [attr |-> attr, geometry |-> geometry]

\* sjoin(left_df, right_df, how, predicate, lsuffix, rsuffix, distance,
\* on_attribute): the body is empty, the call returns None
sjoin(left_df, right_df, how, predicate, lsuffix, rsuffix, distance, on_attribute) ==
    None

\* np.setdiff1d(np.arange(n), index): the sorted values below n not in index
np_setdiff1d_arange(n, index) ==
    LET Missing(i) == \A k \in 1 .. Len(index) : index[k] # i
    IN  SelectSeq([k \in 1 .. n |-> k - 1], Missing)

\* np.full(n, value)
np_full(n, value) == [k \in 1 .. n |-> value]

\* _adjust_indexers(indices, distances, original_length, how, predicate)
_adjust_indexers(indices, distances, original_length, how, predicate) ==
    LET left_index == indices[1]
        right_index == indices[2]
        missing == np_setdiff1d_arange(original_length,
                       IF how = "left" THEN left_index ELSE right_index)
        padded == IF distances = None THEN None
                  ELSE NdArray1(distances.data \o np_full(Len(missing), Inf))
    IN  IF how = "inner"
        THEN PyTuple(<<NdArray1(left_index), NdArray1(right_index), distances>>)
        ELSE IF how = "left"
        THEN PyTuple(<<NdArray1(left_index \o missing),
                       NdArray1(right_index \o np_full(Len(missing), -1)),
                       padded>>)
        ELSE IF how = "right"
        THEN PyTuple(<<NdArray1(left_index \o np_full(Len(missing), -1)),
                       NdArray1(right_index \o missing),
                       padded>>)
        ELSE PyTuple(<<NdArray1(left_index), NdArray1(right_index), distances>>)

FrameGeoms == {None, EmptyGeom, Point(0, 0), box(-10, -10, 10, 10)}
LeftFrames ==
    {GeoDataFrame([k \in 1 .. Len(g) |-> Row(k - 1, g[k])]) :
        g \in SeqsOf(FrameGeoms, 0, MaxRows)}
RightFrames ==
    {GeoDataFrame([k \in 1 .. Len(g) |-> Row(10 + k - 1, g[k])]) :
        g \in SeqsOf(FrameGeoms, 0, MaxRows)}
Hows == {"inner", "left", "right"}
MatchSets ==
    {m \in SeqsOf((0 .. MaxRows - 1) \X (0 .. MaxRows - 1), 0, MaxRows) :
        \A i, j \in 1 .. Len(m) : i < j => m[i] # m[j]}

JoinInit ==
    /\ sindex = NoObject
    /\ heap = <<>>
    /\ arrays = <<>>
    /\ call = [op |-> "idle"]
    /\ ret = NoObject

Sjoin ==
    /\ ret = NoObject
    /\ \E left_df \in LeftFrames, right_df \in RightFrames, how \in Hows,
          predicate \in {"intersects", "within"} :
         /\ call' = [op |-> "sjoin", left_df |-> left_df, right_df |-> right_df,
                     how |-> how, predicate |-> predicate]
         /\ ret' = sjoin(left_df, right_df, how, predicate, "left", "right",
                         None, None)
    /\ UNCHANGED <<sindex, heap, arrays>>

AdjustIndexers ==
    /\ ret = NoObject
    /\ \E m \in MatchSets, original_length \in 0 .. MaxRows,
          how \in Hows \cup {"outer"}, with_distances \in BOOLEAN :
         LET indices == <<[k \in 1 .. Len(m) |-> m[k][1]],
                          [k \in 1 .. Len(m) |-> m[k][2]]>>
             distances == IF with_distances
                          THEN NdArray1([k \in 1 .. Len(m) |-> Num(0)])
                          ELSE None
         IN  /\ \A k \in 1 .. Len(m) :
                   (IF how = "right" THEN m[k][2] ELSE m[k][1]) < original_length
             /\ call' = [op |-> "_adjust_indexers", indices |-> indices,
                         distances |-> distances,
                         original_length |-> original_length, how |-> how]
             /\ ret' = _adjust_indexers(indices, distances, original_length, how,
                                        "intersects")
    /\ UNCHANGED <<sindex, heap, arrays>>

\* sjoin_nearest(left_df, right_df, how, max_distance, lsuffix, rsuffix,
\* distance_col, exclusive): the body is empty, the call returns None
sjoin_nearest(left_df, right_df, how, max_distance, lsuffix, rsuffix, distance_col, exclusive) ==
    None

MaxNear == 3
NearGeoms == {Point(5, 0), Point(0, 5), Point(-5, 0), Point(8, 8)}
NearLeftFrames ==
    {GeoDataFrame(<<Row(0, g)>>) : g \in {Point(0, 0), Point(8, 8)}}
NearRightFrames ==
    {GeoDataFrame([k \in 1 .. Len(g) |-> Row(10 + k - 1, g[k])]) :
        g \in SeqsOf(NearGeoms, 1, MaxNear)}

SjoinNearest ==
    /\ ret = NoObject
    /\ \E left_df \in NearLeftFrames, right_df \in NearRightFrames, how \in Hows,
          distance_col \in {None, Str("dist")} :
         /\ call' = [op |-> "sjoin_nearest", left_df |-> left_df,
                     right_df |-> right_df, how |-> how,
                     distance_col |-> distance_col]
         /\ ret' = sjoin_nearest(left_df, right_df, how, None, "left", "right",
                                 distance_col, FALSE)
    /\ UNCHANGED <<sindex, heap, arrays>>

\* _process_column_names_with_suffix(left, right, suffixes, left_df, right_df):
\* left, right are the column labels; of the frames only the name of the
\* geometry column is read
_process_column_names_with_suffix(left, right, suffixes, left_geometry_column_name, right_geometry_column_name) ==
    LET left_set == left \ {left_geometry_column_name}
        right_set == right \ {right_geometry_column_name}
        overlap == left_set \cap right_set
    IN  [kind |-> "dict",
         left |-> [name \in overlap |-> name \o suffixes[1]],
         right |-> [name \in overlap |-> name \o suffixes[2]]]

ColumnNames == {"attr", "other", "geometry", "geom"}
GeometryNames == {"geometry", "geom"}
SuffixPairs == {<<"left", "right">>, <<"l", "r">>}

ProcessColumnNames ==
    /\ ret = NoObject
    /\ \E left \in SUBSET ColumnNames, right \in SUBSET ColumnNames,
          lg \in GeometryNames, rg \in GeometryNames, suffixes \in SuffixPairs :
         /\ lg \in left
         /\ rg \in right
         /\ call' = [op |-> "_process_column_names_with_suffix", left |-> left,
                     right |-> right, suffixes |-> suffixes,
                     left_geometry |-> lg, right_geometry |-> rg]
         /\ ret' = _process_column_names_with_suffix(left, right, suffixes, lg, rg)
    /\ UNCHANGED <<sindex, heap, arrays>>

\* _basic_checks(left_df, right_df, how, lsuffix, rsuffix, on_attribute): of
\* the frames only the column labels are read; None, or the error raised
_basic_checks(left_columns, right_columns, how, lsuffix, rsuffix, on_attribute) ==
    IF how \notin {"left", "right", "inner"} THEN Raise("ValueError")
    ELSE IF ("index_" \o lsuffix) \in left_columns THEN Raise("ValueError")
    ELSE IF ("index_" \o rsuffix) \in right_columns THEN Raise("ValueError")
    ELSE IF on_attribute # None /\ ~(on_attribute.kind = "list" /\ on_attribute.items = <<>>)
    THEN IF on_attribute.kind # "list" THEN Raise("ValueError")
         ELSE IF \E i \in 1 .. Len(on_attribute.items) :
                     \/ on_attribute.items[i] \notin left_columns
                     \/ on_attribute.items[i] \notin right_columns
         THEN Raise("ValueError")
         ELSE None
    ELSE None

CheckedColumns == {"attr", "index_left", "index_right"}
OnAttributeArgs ==
    {None, PyList(<<>>), PyList(<<"attr">>), Str("attr")}

BasicChecks ==
    /\ ret = NoObject
    /\ \E left_columns \in SUBSET CheckedColumns,
          right_columns \in SUBSET CheckedColumns,
          how \in Hows \cup {"outer"}, lsuffix \in {"left", "l"},
          on_attribute \in OnAttributeArgs :
         /\ call' = [op |-> "_basic_checks", left_columns |-> left_columns,
                     right_columns |-> right_columns, how |-> how,
                     lsuffix |-> lsuffix, rsuffix |-> "right",
                     on_attribute |-> on_attribute]
         /\ ret' = _basic_checks(left_columns, right_columns, how, lsuffix,
                                 "right", on_attribute)
    /\ UNCHANGED <<sindex, heap, arrays>>

\* left_df.sindex: the index over the geometry column of the frame, built in
\* row order
GeoDataFrame_sindex(self) ==
    SpatialIndex([k \in 1 .. Len(self.rows) |-> self.rows[k].geometry],
                 [k \in 1 .. Len(self.rows) |-> k - 1])

\* right_df.geometry: the geometry column of the frame as a series
GeoDataFrame_geometry(self) ==
    GeoSeries([k \in 1 .. Len(self.rows) |-> k - 1],
              [k \in 1 .. Len(self.rows) |-> self.rows[k].geometry],
              Str("geometry"), None)

\* _filter_shared_attribute(left_df, right_df, l_idx, r_idx, attribute): the
\* body is empty, the call returns None
_filter_shared_attribute(left_df, right_df, l_idx, r_idx, attribute) == None

\* _geom_predicate_query(left_df, right_df, predicate, distance, on_attribute):
\* the index of left_df is queried with the geometries of right_df, the first
\* row of the result (input positions) becomes _key_left and the second (tree
\* positions) _key_right; unpacking the None of _filter_shared_attribute is a
\* TypeError
_geom_predicate_query(left_df, right_df, predicate, distance, on_attribute) ==
    LET left_sindex == GeoDataFrame_sindex(left_df)
        right_geom == GeoDataFrame_geometry(right_df)
    IN  IF predicate = Str("dwithin") /\ distance = None THEN Raise("ValueError")
        ELSE LET matches == query(left_sindex, right_geom, predicate, FALSE,
                                  distance, "tuple")
                 left_idx == matches.rows[1]
                 right_idx == matches.rows[2]
             IN  IF matches.kind = "raise" THEN matches
                 ELSE IF on_attribute # None /\ Len(on_attribute.items) > 0
                 THEN IF _filter_shared_attribute(left_df, right_df, left_idx,
                                                  right_idx, on_attribute) = None
                      THEN Raise("TypeError")
                      ELSE Raise("NotImplementedError")
                 ELSE DataFrame(<<"_key_left", "_key_right">>,
                                [k \in 1 .. Len(left_idx) |->
                                    <<left_idx[k], right_idx[k]>>])

QueryPredicates ==
    {<<Str("intersects"), None>>, <<Str("within"), None>>, <<Str("contains"), None>>,
     <<Str("dwithin"), None>>, <<Str("dwithin"), Num(8)>>}

GeomPredicateQuery ==
    /\ ret = NoObject
    /\ \E left_df \in LeftFrames, right_df \in RightFrames, pd \in QueryPredicates,
          on_attribute \in {None, PyList(<<"attr">>)} :
         /\ call' = [op |-> "_geom_predicate_query", left_df |-> left_df,
                     right_df |-> right_df, predicate |-> pd[1],
                     distance |-> pd[2], on_attribute |-> on_attribute]
         /\ ret' = _geom_predicate_query(left_df, right_df, pd[1], pd[2],
                                         on_attribute)
    /\ UNCHANGED <<sindex, heap, arrays>>

JoinNext ==
    \/ Sjoin
    \/ SjoinNearest
    \/ AdjustIndexers
    \/ ProcessColumnNames
    \/ BasicChecks
    \/ GeomPredicateQuery
    \/ Return

SpecJoin == JoinInit /\ [][JoinNext]_vars

(***************************************************************************)
(* Frames and series.  A frame has its index labels, its column labels in  *)
(* order, the dtype and the values of every column, the name of its active *)
(* geometry column (None: it has none) and the CRS it was constructed      *)
(* with; a series has its index labels, its values, its name and its CRS.  *)
(* The integer column label 0 is written "0".                              *)
(***************************************************************************)
MaxClip == 2

Frame(index, columns, dtypes, data, geometry_column_name, crs) ==
    [kind |-> "GeoDataFrame", index |-> index, columns |-> columns,
     dtypes |-> dtypes, data |-> data,
     _geometry_column_name |-> geometry_column_name, crs |-> crs]

\* GeoDataFrame.crs: the getter of the property
GeoDataFrame_crs(self) == None

\* GeoDataFrame.set_geometry(col, inplace=True, crs=crs)
set_geometry(self, col, crs) == self

\* _ensure_geometry(data, crs)
_ensure_geometry(data, crs) == None

\* GeoDataFrame.geometry: the active geometry column as a series, or the error
\* of a frame that has none
_get_geometry(self) ==
    IF self.kind = "GeoSeries" THEN self
    ELSE IF self._geometry_column_name = None THEN Raise("AttributeError")
    ELSE GeoSeries(self.index, self.data[self._geometry_column_name.v],
                   self._geometry_column_name, self.crs)

\* GeoDataFrame(data, geometry=geometry, crs=crs), for data a series or None
\* and geometry a series or None
GeoDataFrame__init__(data, geometry, crs) ==
    LET label == IF data = None THEN "" ELSE IF data.name = None THEN "0" ELSE data.name.v
        named == data # None /\ geometry = None /\ label = "geometry"
        super == IF data = None
                 THEN Frame(<<>>, <<>>, <<>>, <<>>, None, None)
                 ELSE Frame(data.index, <<label>>,
                            [c \in {label} |-> IF named THEN "object" ELSE "geometry"],
                            [c \in {label} |->
                                IF named
                                THEN [k \in 1 .. Len(data.data) |-> _ensure_geometry(data.data, crs)]
                                ELSE data.data],
                            None, None)
    IN  IF named /\ crs_getter(data) # None /\ crs # None /\ crs_getter(data) # crs
        THEN Raise("ValueError")
        ELSE IF geometry # None /\ geometry.crs # None /\ crs # None /\ geometry.crs # crs
        THEN Raise("ValueError")
        ELSE IF geometry # None
        THEN set_geometry(super, geometry, crs)
        ELSE IF named
        THEN set_geometry(super, "geometry", crs)
        ELSE IF crs # None
        THEN Raise("ValueError")
        ELSE super

\* GeometryArray.__eq__(other)
GeometryArray__eq__(self, other) == Raise("AttributeError")

\* left == right for a frame left: the labels of the operands are aligned,
\* then the columns are compared one by one, a geometry column by
\* GeometryArray.__eq__
DataFrame__eq__(self, other) ==
    LET aligned ==
            IF other.kind = "GeoDataFrame"
            THEN self.index = other.index /\ self.columns = other.columns
            ELSE IF other.kind = "GeoSeries"
            THEN other.index = self.columns
            ELSE IF other.kind \in {"list", "tuple"}
            THEN Len(other.items) = Len(self.columns)
            ELSE TRUE
    IN  IF ~aligned THEN Raise("ValueError")
        ELSE IF \E k \in 1 .. Len(self.columns) : self.dtypes[self.columns[k]] = "geometry"
        THEN GeometryArray__eq__(self, other)
        ELSE [kind |-> "DataFrame", index |-> self.index, columns |-> self.columns]

\* _check_crs(left, right, allow_none=False)
_check_crs(left, right, allow_none) ==
    IF allow_none /\ (left = None \/ right = None) THEN Bool(TRUE)
    ELSE IF left = None \/ right = None THEN Bool(FALSE)
    ELSE IF left.kind = "GeoDataFrame" THEN DataFrame__eq__(left, right)
    ELSE Bool(left = right)

\* a.intersection(b) for a rectangle b: the part of a inside b (a rectangle
\* that meets b in a side or a corner gives the flat rectangle of that side or
\* corner)
rect_intersection(a, b) ==
    IF a.kind = "MultiPoint"
    THEN IF \E p \in a.pts : InClosed(b, p)
         THEN MultiPoint({p \in a.pts : InClosed(b, p)})
         ELSE EmptyGeom
    ELSE IF BoxesIntersect(a, b)
    THEN box(SetMax({a.minx, b.minx}), SetMax({a.miny, b.miny}),
             SetMin({a.maxx, b.maxx}), SetMin({a.maxy, b.maxy}))
    ELSE EmptyGeom

\* a.intersection(b) for b a rectangle or a set of rectangles (MultiPolygon)
geom_intersection(a, b) ==
    IF a = None THEN None
    ELSE IF a.kind = "Empty" THEN EmptyGeom
    ELSE IF b.kind = "Polygon" THEN rect_intersection(a, b)
    ELSE LET parts == {rect_intersection(a, r) : r \in b.geoms} \ {EmptyGeom}
         IN  IF parts = {} THEN EmptyGeom
             ELSE IF a.kind = "MultiPoint"
             THEN MultiPoint(UNION {g.pts : g \in parts})
             ELSE IF Cardinality(parts) = 1 THEN CHOOSE g \in parts : TRUE
             ELSE [kind |-> "MultiPolygon", geoms |-> parts]

\* series.intersection(mask), series.clip_by_rect(minx, miny, maxx, maxy)
series_intersection(series, mask) ==
    GeoSeries(series.index,
              [k \in 1 .. Len(series.data) |-> geom_intersection(series.data[k], mask)],
              None, series.crs)

\* series[mask] for a boolean mask given as the set of the places kept
series_take(series, keep) ==
    LET at == SelectSeq([k \in 1 .. Len(series.data) |-> k], LAMBDA k : k \in keep)
    IN  GeoSeries([k \in 1 .. Len(at) |-> series.index[at[k]]],
                  [k \in 1 .. Len(at) |-> series.data[at[k]]],
                  series.name, series.crs)

\* series.sort_index()
sort_index(series) ==
    LET labels == SortAsc(series.index)
        place(l) == CHOOSE k \in 1 .. Len(series.index) : series.index[k] = l
    IN  GeoSeries(labels,
                  [k \in 1 .. Len(labels) |-> series.data[place(labels[k])]],
                  series.name, series.crs)

\* series.unary_union
unary_union(series) ==
    IF Len(series.data) = 1 THEN series.data[1]
    ELSE [kind |-> "MultiPolygon", geoms |-> {series.data[k] : k \in 1 .. Len(series.data)}]

\* series.geom_type
geom_type(g) ==
    IF g = None THEN None
    ELSE IF g.kind = "MultiPoint" /\ Cardinality(g.pts) = 1 THEN Str("Point")
    ELSE IF g.kind = "Empty" THEN Str("GeometryCollection")
    ELSE Str(g.kind)

\* how many arguments *mask unpacks to (-1: the mask is not iterable)
Unpacked(mask) ==
    IF mask.kind \in {"list", "tuple"} THEN Len(mask.items)
    ELSE IF mask.kind = "GeoDataFrame" THEN Len(mask.columns)
    ELSE IF mask.kind = "GeoSeries" THEN Len(mask.data)
    ELSE -1

\* _clip_gdf_with_mask(gdf, mask, sort=False); a mask that is not a polygon is
\* unpacked into the four numbers of clip_by_rect
_clip_gdf_with_mask(gdf, mask, sort) ==
    LET polygon == mask.kind \in {"Polygon", "MultiPolygon"}
        geometry == _get_geometry(gdf)
    IN  IF ~polygon /\ ~(mask.kind \in {"list", "tuple"} /\ Unpacked(mask) = 4)
        THEN Raise("TypeError")
        ELSE IF geometry.kind = "raise" THEN geometry
        ELSE
            LET clipped ==
                    IF polygon THEN series_intersection(geometry, mask)
                    ELSE series_intersection(geometry,
                             box(mask.items[1], mask.items[2], mask.items[3], mask.items[4]))
                nonempty == series_take(clipped,
                                {k \in 1 .. Len(clipped.data) :
                                    clipped.data[k] = None \/ ~is_empty(clipped.data[k])})
                sorted == IF sort THEN sort_index(nonempty) ELSE nonempty
            IN  GeoDataFrame__init__(sorted, None, GeoDataFrame_crs(gdf))

\* frame[mask] for a boolean mask given as the set of the places kept
frame_take(frame, keep) ==
    LET at == SelectSeq([k \in 1 .. Len(frame.index) |-> k], LAMBDA k : k \in keep)
    IN  Frame([k \in 1 .. Len(at) |-> frame.index[at[k]]], frame.columns, frame.dtypes,
              [c \in DOMAIN frame.data |-> [k \in 1 .. Len(at) |-> frame.data[c][at[k]]]],
              frame._geometry_column_name, frame.crs)

\* clipped[clipped.geom_type == gdf.geom_type]
keep_geom_type_rows(clipped, gdf) ==
    LET new == _get_geometry(clipped)
        orig == _get_geometry(gdf)
    IN  IF new.kind = "raise" THEN new
        ELSE IF orig.kind = "raise" THEN orig
        ELSE IF new.index # orig.index THEN Raise("ValueError")
        ELSE frame_take(clipped,
                 {k \in 1 .. Len(new.data) :
                     geom_type(new.data[k]) = geom_type(orig.data[k])})

\* clip(gdf, mask, keep_geom_type=False, sort=False)
clip(gdf, mask, keep_geom_type, sort) ==
    IF gdf.kind = "GeoSeries"
    THEN LET clipped == _clip_gdf_with_mask(GeoDataFrame__init__(None, gdf, None), mask, sort)
         IN  IF clipped.kind = "raise" THEN clipped ELSE _get_geometry(clipped)
    ELSE
        LET checked == _check_crs(gdf, mask, FALSE)
            union == IF mask.kind \in {"GeoDataFrame", "GeoSeries"}
                     THEN _get_geometry(mask) ELSE None
            shape == IF mask.kind \in {"GeoDataFrame", "GeoSeries"}
                     THEN (IF union.kind = "raise" THEN union ELSE unary_union(union))
                     ELSE IF mask.kind \in {"list", "tuple"} /\ Len(mask.items) = 4
                     THEN box(mask.items[1], mask.items[2], mask.items[3], mask.items[4])
                     ELSE mask
            clipped == _clip_gdf_with_mask(gdf, shape, sort)
        IN  IF checked.kind = "raise" THEN checked
            ELSE IF shape.kind = "raise" THEN shape
            ELSE IF clipped.kind = "raise" THEN clipped
            ELSE IF keep_geom_type THEN keep_geom_type_rows(clipped, gdf)
            ELSE clipped

(***************************************************************************)
(* The clip machine: one call of clip(), of _clip_gdf_with_mask() or of    *)
(* _check_crs() at a time.                                                 *)
(***************************************************************************)
ClipGeoms == {Point(0, 0), Point(5, 5), box(0, 0, 4, 4)}
ClipIndexes == {idx \in SeqsOf({0, 1}, 1, MaxClip) :
                   \A i, j \in 1 .. Len(idx) : idx[i] = idx[j] => i = j}
CRSs == {None, Str("EPSG:4326"), Str("EPSG:3857")}

\* the frame with the columns attr and geometry, the attribute of the row
\* labelled l being 10 + l
DataFrameOf(index, geoms, crs) ==
    Frame(index, <<"attr", "geometry">>,
          [c \in {"attr", "geometry"} |-> IF c = "attr" THEN "int64" ELSE "geometry"],
          [c \in {"attr", "geometry"} |->
              IF c = "attr" THEN [k \in 1 .. Len(index) |-> Num(10 + index[k])] ELSE geoms],
          Str("geometry"), crs)

ClipFrames ==
    {DataFrameOf(idx, geoms, crs) :
        <<idx, geoms>> \in {p \in ClipIndexes \X SeqsOf(ClipGeoms, 1, MaxClip) :
                                Len(p[1]) = Len(p[2])},
        crs \in {None, Str("EPSG:4326")}}

ClipSeries == {GeoSeries(<<0>>, <<g>>, None, Str("EPSG:4326")) : g \in ClipGeoms}

MaskPolygons == {box(-1, -1, 1, 1), box(-10, -10, 10, 10), box(20, 20, 30, 30)}
MaskBoxes == {PyList(<<p.minx, p.miny, p.maxx, p.maxy>>) : p \in MaskPolygons}
MaskFrames == {DataFrameOf(<<0>>, <<p>>, crs) : p \in MaskPolygons, crs \in CRSs}
ClipMasks == MaskPolygons \cup MaskBoxes \cup MaskFrames

ClipInit ==
    /\ sindex = NoObject
    /\ heap = <<>>
    /\ arrays = <<>>
    /\ call = [op |-> "idle"]
    /\ ret = NoObject

Clip ==
    /\ ret = NoObject
    /\ \E gdf \in ClipFrames \cup ClipSeries, mask \in ClipMasks,
          keep_geom_type \in BOOLEAN, sort \in BOOLEAN :
         /\ call' = [op |-> "clip", gdf |-> gdf, mask |-> mask,
                     keep_geom_type |-> keep_geom_type, sort |-> sort]
         /\ ret' = clip(gdf, mask, keep_geom_type, sort)
    /\ UNCHANGED <<sindex, heap, arrays>>

ClipGdfWithMask ==
    /\ ret = NoObject
    /\ \E gdf \in ClipFrames, mask \in MaskPolygons \cup MaskBoxes, sort \in BOOLEAN :
         /\ call' = [op |-> "_clip_gdf_with_mask", gdf |-> gdf, mask |-> mask,
                     sort |-> sort]
         /\ ret' = _clip_gdf_with_mask(gdf, mask, sort)
    /\ UNCHANGED <<sindex, heap, arrays>>

CheckCrs ==
    /\ ret = NoObject
    /\ \E left \in CRSs, right \in CRSs, allow_none \in BOOLEAN :
         /\ call' = [op |-> "_check_crs", left |-> left, right |-> right,
                     allow_none |-> allow_none]
         /\ ret' = _check_crs(left, right, allow_none)
    /\ UNCHANGED <<sindex, heap, arrays>>

ClipNext == Clip \/ ClipGdfWithMask \/ CheckCrs \/ Return

SpecClip == ClipInit /\ [][ClipNext]_vars

(***************************************************************************)
(* Overlay: tools/overlay.py.  A polygon is valid unless its ring crosses  *)
(* itself (the bowtie); the result of a set operation of two geometries is *)
(* kept as the operation and its two operands.                             *)
(***************************************************************************)
MaxOverlay == 2

Bowtie == [kind |-> "Polygon", minx |-> 0, miny |-> 0, maxx |-> 2, maxy |-> 2,
           ring |-> "bowtie"]

\* geometry.is_valid
is_valid(g) == g # None /\ "ring" \notin DOMAIN g

\* geometry.make_valid(): the bowtie becomes its two halves
geom_make_valid(g) ==
    IF g = None \/ is_valid(g) THEN g
    ELSE [kind |-> "MultiPolygon", geoms |-> {box(0, 0, 1, 1), box(1, 1, 2, 2)}]

\* a.intersection(b), a.union(b), a.difference(b), a.symmetric_difference(b)
SetOperation(op, a, b) ==
    IF a = None \/ b = None THEN None
    ELSE [kind |-> "Geometry", op |-> op, left |-> a, right |-> b]

\* series.make_valid()
series_make_valid(series) ==
    GeoSeries(series.index, [k \in 1 .. Len(series.data) |-> geom_make_valid(series.data[k])],
              series.name, series.crs)

\* series.is_valid.all()
series_is_valid_all(series) == \A k \in 1 .. Len(series.data) : is_valid(series.data[k])

\* df.geometry = series: the values of the active geometry column are replaced
_set_geometry(self, series) ==
    [self EXCEPT !.data[self._geometry_column_name.v] = series.data]

\* left.op(right) of two series: the rows are aligned on the index labels, a
\* label missing on one side giving a missing geometry
series_set_operation(op, left, right) ==
    LET labels == SortAsc(left.index \o
                          SelectSeq(right.index,
                                    LAMBDA l : \A k \in 1 .. Len(left.index) : left.index[k] # l))
        value(s, l) == IF \E k \in 1 .. Len(s.index) : s.index[k] = l
                       THEN s.data[CHOOSE k \in 1 .. Len(s.index) : s.index[k] = l]
                       ELSE None
        index == IF left.index = right.index THEN left.index ELSE labels
    IN  GeoSeries(index,
                  [k \in 1 .. Len(index) |->
                      SetOperation(op, value(left, index[k]), value(right, index[k]))],
                  None, left.crs)

\* df.drop(columns='geometry')
drop_geometry(df) ==
    IF \A k \in 1 .. Len(df.columns) : df.columns[k] # "geometry" THEN Raise("KeyError")
    ELSE LET columns == SelectSeq(df.columns, LAMBDA c : c # "geometry")
         IN  Frame(df.index, columns,
                   [c \in DOMAIN df.dtypes \ {"geometry"} |-> df.dtypes[c]],
                   [c \in DOMAIN df.data \ {"geometry"} |-> df.data[c]],
                   df._geometry_column_name, df.crs)

\* the values of other at the place of the label l, a missing value if other
\* has no such label
Joined(other, c, l) ==
    IF \E k \in 1 .. Len(other.index) : other.index[k] = l
    THEN other.data[c][CHOOSE k \in 1 .. Len(other.index) : other.index[k] = l]
    ELSE NaN

\* F applied to the value of v
Apply(F(_), v) == CHOOSE r \in {F(x) : x \in {v}} : TRUE

\* left.join(other, rsuffix=rsuffix): the rows of left, with the columns of
\* other looked up by index label; a column name of other that left has gets
\* the suffix
frame_join(left_frame, other_frame, rsuffix) ==
    Apply(LAMBDA a :
        LET left == a[1]
            other == a[2]
            taken == {left.columns[k] : k \in 1 .. Len(left.columns)}
            name(c) == IF c \in taken THEN c \o rsuffix ELSE c
            added == [k \in 1 .. Len(other.columns) |-> name(other.columns[k])]
            from(n) == CHOOSE c \in DOMAIN other.data : name(c) = n
            new == {added[k] : k \in 1 .. Len(added)}
        IN  IF \E c \in DOMAIN other.data : c \in taken /\ rsuffix = ""
            THEN Raise("ValueError")
            ELSE Frame(left.index, left.columns \o added,
                       [n \in taken \cup new |->
                           IF n \in taken THEN left.dtypes[n] ELSE other.dtypes[from(n)]],
                       [n \in taken \cup new |->
                           IF n \in taken THEN left.data[n]
                           ELSE [k \in 1 .. Len(left.index) |->
                                    Joined(other, from(n), left.index[k])]],
                       left._geometry_column_name, left.crs),
        <<left_frame, other_frame>>)

\* pd.concat([left, right]) of two frames with the same columns
pd_concat(left, right) ==
    Frame(left.index \o right.index, left.columns, left.dtypes,
          [c \in DOMAIN left.data |->
              left.data[c] \o (IF c \in DOMAIN right.data THEN right.data[c]
                               ELSE [k \in 1 .. Len(right.index) |-> NaN])],
          left._geometry_column_name, left.crs)

\* _ensure_geometry_column(df); the rename of the active geometry column to
\* 'geometry' takes the place of the column that had that name
_ensure_geometry_column(df) ==
    LET geometry == _get_geometry(df)
    IN  IF geometry.kind = "raise" THEN geometry
        ELSE IF \A k \in 1 .. Len(df.columns) : df.columns[k] # "geometry"
        THEN set_geometry(df, geometry.name, None)
        ELSE IF geometry.name # Str("geometry")
        THEN set_geometry(
                 Frame(df.index,
                       SelectSeq(df.columns, LAMBDA c : c # geometry.name.v),
                       [c \in DOMAIN df.dtypes \ {geometry.name.v} |->
                           IF c = "geometry" THEN "geometry" ELSE df.dtypes[c]],
                       [c \in DOMAIN df.data \ {geometry.name.v} |->
                           IF c = "geometry" THEN geometry.data ELSE df.data[c]],
                       df._geometry_column_name, df.crs),
                 "geometry", None)
        ELSE df

\* the part the four set operations share: the geometries combined row by row,
\* made into a frame by GeoDataFrame(geometry=...), joined with the other
\* columns of the sides named
OverlayOf(op, df1, df2, sides) ==
    Apply(LAMBDA ensured :
        LET left == ensured[1]
            right == ensured[2]
        IN  IF left.kind = "raise" THEN left
            ELSE IF right.kind = "raise" THEN right
            ELSE Apply(LAMBDA parts :
                     LET combined == parts[1]
                         attrs1 == parts[2]
                         attrs2 == parts[3]
                     IN  IF attrs1.kind = "raise" THEN attrs1
                         ELSE IF sides # "left" /\ attrs2.kind = "raise" THEN attrs2
                         ELSE IF sides = "left" THEN frame_join(combined, attrs1, "")
                         ELSE IF sides = "both"
                         THEN frame_join(frame_join(combined, attrs1, ""), attrs2, "_2")
                         ELSE pd_concat(frame_join(combined, attrs1, ""),
                                        frame_join(combined, attrs2, "_2")),
                     <<GeoDataFrame__init__(None,
                           series_set_operation(op, _get_geometry(left),
                                                _get_geometry(right)),
                           None),
                       drop_geometry(left),
                       drop_geometry(right)>>),
        <<_ensure_geometry_column(df1), _ensure_geometry_column(df2)>>)

\* _overlay_intersection(df1, df2)
_overlay_intersection(df1, df2) == OverlayOf("intersection", df1, df2, "both")

\* _overlay_difference(df1, df2)
_overlay_difference(df1, df2) == OverlayOf("difference", df1, df2, "left")

\* _overlay_symmetric_diff(df1, df2)
_overlay_symmetric_diff(df1, df2) == OverlayOf("symmetric_difference", df1, df2, "each")

\* _overlay_union(df1, df2)
_overlay_union(df1, df2) == OverlayOf("union", df1, df2, "both")

OverlayHows == {"intersection", "union", "identity", "symmetric_difference", "difference"}

\* the outcome of a call: what it returns or raises, the geometric operations
\* it ran, in order, and the two frames as the call leaves them
Outcome(r, ran, df1, df2) == [ret |-> r, ran |-> ran, df1 |-> df1, df2 |-> df2]

\* result[result.geometry.intersects(df1.geometry.unary_union)] and
\* result[result.geometry.geom_type == df1.geometry.geom_type[0]]
rows_by_geometry(result, df1) ==
    IF _get_geometry(result).kind = "raise" THEN _get_geometry(result)
    ELSE IF _get_geometry(df1).kind = "raise" THEN _get_geometry(df1)
    ELSE result

\* the how chain of overlay() and its keep_geom_type filter, for the frames
\* df1 and df2 that _ensure_geometry_column returned
overlay_how(df1, df2, how, keep_geom_type) ==
    Apply(LAMBDA combined :
        IF combined.kind = "raise" THEN combined
        ELSE Apply(LAMBDA result :
                 IF result.kind = "raise" THEN result
                 ELSE IF keep_geom_type = Bool(FALSE) THEN result
                 ELSE rows_by_geometry(result, df1),
                 IF how = "identity" THEN rows_by_geometry(combined, df1) ELSE combined),
        CASE how = "intersection" -> _overlay_intersection(df1, df2)
          [] how \in {"union", "identity"} -> _overlay_union(df1, df2)
          [] how = "symmetric_difference" -> _overlay_symmetric_diff(df1, df2)
          [] how = "difference" -> _overlay_difference(df1, df2)
          [] OTHER -> Raise("ValueError"))

\* overlay(df1, df2, how='intersection', keep_geom_type=None, make_valid=True)
overlay(df1, df2, how, keep_geom_type, make_valid) ==
    LET g1 == _get_geometry(df1)
        g2 == _get_geometry(df2)
        v1 == IF make_valid THEN _set_geometry(df1, series_make_valid(g1)) ELSE df1
        v2 == IF make_valid THEN _set_geometry(df2, series_make_valid(g2)) ELSE df2
        checked == IF make_valid THEN <<"make_valid", "make_valid">>
                   ELSE IF series_is_valid_all(g1) THEN <<"is_valid", "is_valid">>
                   ELSE <<"is_valid">>
        ran == IF how \notin OverlayHows THEN checked
               ELSE checked \o <<IF how = "identity" THEN "union" ELSE how>>
    IN  IF ~make_valid /\ ~(series_is_valid_all(g1) /\ series_is_valid_all(g2))
        THEN Outcome(Raise("ValueError"), checked, df1, df2)
        ELSE Apply(LAMBDA ensured :
                 Outcome(overlay_how(ensured[1], ensured[2], how, keep_geom_type),
                         ran, v1, v2),
                 <<_ensure_geometry_column(v1), _ensure_geometry_column(v2)>>)

(***************************************************************************)
(* The overlay machine: one call of overlay() at a time; the call record   *)
(* keeps the operations the call ran and the frames as it left them.       *)
(***************************************************************************)
OverlayGeoms == {box(0, 0, 4, 4), box(2, 2, 6, 6), Bowtie}
OverlayFrames ==
    {DataFrameOf([k \in 1 .. Len(geoms) |-> k - 1], geoms, None) :
        geoms \in SeqsOf(OverlayGeoms, 1, MaxOverlay)}
HowArgs == OverlayHows \cup {"intersect"}
KeepGeomTypeArgs == {None, Bool(TRUE), Bool(FALSE)}

OverlayInit ==
    /\ sindex = NoObject
    /\ heap = <<>>
    /\ arrays = <<>>
    /\ call = [op |-> "idle"]
    /\ ret = NoObject

Overlay ==
    /\ ret = NoObject
    /\ \E df1 \in OverlayFrames, df2 \in OverlayFrames, how \in HowArgs,
          keep_geom_type \in KeepGeomTypeArgs, make_valid \in BOOLEAN :
         \E out \in {overlay(df1, df2, how, keep_geom_type, make_valid)} :
             /\ call' = [op |-> "overlay", df1 |-> df1, df2 |-> df2, how |-> how,
                         keep_geom_type |-> keep_geom_type, make_valid |-> make_valid,
                         ran |-> out.ran, df1_after |-> out.df1, df2_after |-> out.df2]
             /\ ret' = out.ret
    /\ UNCHANGED <<sindex, heap, arrays>>

OverlayNext == Overlay \/ Return

SpecOverlay == OverlayInit /\ [][OverlayNext]_vars

(***************************************************************************)
(* The WKB codec: array.py from_wkb, to_wkb.  A WKB value is the sequence  *)
(* of its fields: byte order, geometry type, then the counts and the       *)
(* coordinates.                                                            *)
(***************************************************************************)
MaxWkb == 3

Bytes(v) == [kind |-> "bytes", v |-> v]

\* the points of a set, in ascending order of x, then y
RECURSIVE PointSeq(_)
PointSeq(S) ==
    IF S = {} THEN <<>>
    ELSE LET first == CHOOSE p \in S : \A q \in S :
                          p[1] < q[1] \/ (p[1] = q[1] /\ p[2] <= q[2])
         IN  <<first>> \o PointSeq(S \ {first})

RECURSIVE Flatten(_)
Flatten(ss) == IF ss = <<>> THEN <<>> ELSE Head(ss) \o Flatten(Tail(ss))

\* shapely.wkb.dumps(geom): little-endian (1); Point is type 1, Polygon 3,
\* MultiPoint 4, the empty collection 7
wkb_dumps(geom) ==
    IF geom.kind = "Empty" THEN Bytes(<<1, 7, 0>>)
    ELSE IF geom.kind = "Polygon"
    THEN Bytes(<<1, 3, 1, 5,
                 geom.maxx, geom.miny, geom.maxx, geom.maxy, geom.minx, geom.maxy,
                 geom.minx, geom.miny, geom.maxx, geom.miny>>)
    ELSE IF Cardinality(geom.pts) = 1
    THEN Bytes(<<1, 1>> \o PointSeq(geom.pts)[1])
    ELSE Bytes(<<1, 4, Cardinality(geom.pts)>> \o
               Flatten([k \in 1 .. Cardinality(geom.pts) |->
                           <<1, 1>> \o PointSeq(geom.pts)[k]]))

\* the fields v are those of a well-formed WKB value
WellFormed(v) ==
    /\ Len(v) >= 3
    /\ v[1] = 1
    /\ \/ v[2] = 1 /\ Len(v) = 4
       \/ v[2] = 7 /\ v = <<1, 7, 0>>
       \/ /\ v[2] = 3 /\ Len(v) = 14 /\ v[3] = 1 /\ v[4] = 5
          /\ v[13] = v[5] /\ v[14] = v[6]
          /\ v[7] = v[5] /\ v[9] = v[11] /\ v[8] = v[10] /\ v[12] = v[6]
          /\ v[11] < v[5] /\ v[6] < v[8]
       \/ /\ v[2] = 4 /\ v[3] >= 0 /\ Len(v) = 3 + 4 * v[3]
          /\ \A k \in 1 .. v[3] : v[4 * k] = 1 /\ v[4 * k + 1] = 1

\* shapely.wkb.loads(wkb): None for None, the geometry of a well-formed value,
\* an error for anything else
wkb_loads(wkb) ==
    IF wkb = None THEN None
    ELSE IF wkb.kind # "bytes" THEN Raise("TypeError")
    ELSE IF ~WellFormed(wkb.v) THEN Raise("GEOSException")
    ELSE IF wkb.v[2] = 1 THEN Point(wkb.v[3], wkb.v[4])
    ELSE IF wkb.v[2] = 7 THEN EmptyGeom
    ELSE IF wkb.v[2] = 3 THEN box(wkb.v[11], wkb.v[6], wkb.v[5], wkb.v[8])
    ELSE IF wkb.v[3] = 0 THEN EmptyGeom
    ELSE MultiPoint({<<wkb.v[4 * k + 2], wkb.v[4 * k + 3]>> : k \in 1 .. wkb.v[3]})

\* the loop of from_wkb over the elements left, geoms and the number of
\* warnings being those so far: the list of geometries, or the error, and the
\* number of warnings emitted
RECURSIVE from_wkb_loop(_, _, _, _)
from_wkb_loop(rest, on_invalid, geoms, warned) ==
    IF rest = <<>> THEN [ret |-> GeometryArrayOver(geoms), warnings |-> warned]
    ELSE LET geom == wkb_loads(Head(rest))
         IN  IF geom.kind # "raise"
             THEN from_wkb_loop(Tail(rest), on_invalid, Append(geoms, geom), warned)
             ELSE IF on_invalid = "raise"
             THEN [ret |-> Raise("ValueError"), warnings |-> warned]
             ELSE IF on_invalid = "warn"
             THEN from_wkb_loop(Tail(rest), on_invalid, Append(geoms, None), warned + 1)
             ELSE IF on_invalid = "ignore"
             THEN from_wkb_loop(Tail(rest), on_invalid, Append(geoms, None), warned)
             ELSE [ret |-> Raise("ValueError"), warnings |-> warned]

\* from_wkb leaving the invalid elements out instead of putting None in their place
from_wkb_skipping_invalid(data, crs, on_invalid) ==
    LET items == IF data.kind = "list" THEN data.items ELSE data.data
    IN  from_wkb_loop(IF on_invalid = "raise" THEN items
                      ELSE SelectSeq(items, LAMBDA w : wkb_loads(w).kind # "raise"),
                      on_invalid, <<>>, 0)

\* from_wkb(data, crs=None, on_invalid='raise'), data a list or an array
from_wkb(data, crs, on_invalid) ==
    from_wkb_loop(IF data.kind = "list" THEN data.items ELSE data.data,
                  on_invalid, <<>>, 0)

\* to_wkb leaving the missing elements out
to_wkb_dropping_null(geoms) ==
    LET elems == IF geoms.kind = "GeometryArray" THEN geoms._data ELSE geoms.data
        kept == SelectSeq(elems, LAMBDA g : g # None)
    IN  NdArray1([k \in 1 .. Len(kept) |-> wkb_dumps(kept[k])])

\* to_wkb(geoms), geoms a GeometryArray or an array
to_wkb(geoms) ==
    LET elems == IF geoms.kind = "GeometryArray" THEN geoms._data ELSE geoms.data
    IN  NdArray1([k \in 1 .. Len(elems) |->
                     IF elems[k] = None THEN None ELSE wkb_dumps(elems[k])])

(***************************************************************************)
(* The codec machine: one call of to_wkb() or from_wkb() at a time.        *)
(***************************************************************************)
WkbGeoms ==
    {None, Point(0, 0), Point(-5, 8), MultiPoint({<<0, 0>>, <<5, 5>>}),
     box(0, 0, 4, 4), EmptyGeom}
WkbColumns == {GeometryArrayOver(s) : s \in SeqsOf(WkbGeoms, 0, MaxWkb)}

\* well-formed values, a truncated point, a value of an unknown type, a value
\* that is not bytes
WkbValues ==
    {None, wkb_dumps(Point(0, 0)), wkb_dumps(box(0, 0, 4, 4)),
     Bytes(<<1, 1, 0>>), Bytes(<<1, 9, 0>>), Num(5)}
WkbInputs == {NdArray1(s) : s \in SeqsOf(WkbValues, 0, MaxWkb)}
            \cup {PyList(s) : s \in SeqsOf(WkbValues, 1, 1)}
OnInvalidArgs == {"raise", "warn", "ignore"}

CodecInit ==
    /\ sindex = NoObject
    /\ heap = <<>>
    /\ arrays = <<>>
    /\ call = [op |-> "idle"]
    /\ ret = NoObject

ToWkb ==
    /\ ret = NoObject
    /\ \E geoms \in WkbColumns :
         /\ call' = [op |-> "to_wkb", geoms |-> geoms]
         /\ ret' = to_wkb(geoms)
    /\ UNCHANGED <<sindex, heap, arrays>>

FromWkb ==
    /\ ret = NoObject
    /\ \E data \in WkbInputs, on_invalid \in OnInvalidArgs :
         \E out \in {from_wkb(data, None, on_invalid)} :
             /\ call' = [op |-> "from_wkb", data |-> data, on_invalid |-> on_invalid,
                         warnings |-> out.warnings]
             /\ ret' = out.ret
    /\ UNCHANGED <<sindex, heap, arrays>>

CodecNext == ToWkb \/ FromWkb \/ Return

SpecCodec == CodecInit /\ [][CodecNext]_vars

(***************************************************************************)
(* geopandas/tools/hilbert_curve.py.  Coordinates are integers; a midpoint *)
(* is kept as twice its value, so that the scaling is exact.               *)
(***************************************************************************)
MaxLevel == 2
MaxCells == 2

\* (x & (1 << s)) != 0, as 0 or 1
Bit(x, s) == (x \div (2 ^ s)) % 2

\* the loop of _xy2d from bit s on, d being the sum so far
RECURSIVE xy2d_loop(_, _, _, _, _)
xy2d_loop(n, x, y, s, d) ==
    IF s >= n THEN d
    ELSE xy2d_loop(n, x, y, s + 1,
                   d + Bit(x, s) * (2 ^ (2 * s)) + Bit(y, s) * (2 ^ (2 * s + 1)))

\* _xy2d(n, x, y)
_xy2d(n, x, y) == xy2d_loop(n, x, y, 0, 0)

\* np.clip(v, lo, hi)
np_clip(v, lo, hi) == IF v < lo THEN lo ELSE IF v > hi THEN hi ELSE v

\* _continuous_to_discrete(vals, val_range, n) for values given as twice their
\* value: (scaled * (n - 1)).astype(int), clipped to 0 .. n - 1
_continuous_to_discrete(twice_vals, val_range, n) ==
    LET min_val == val_range[1]
        max_val == val_range[2]
    IN  [i \in 1 .. Len(twice_vals) |->
            np_clip(((twice_vals[i] - 2 * min_val) * (n - 1))
                        \div (2 * (max_val - min_val)),
                    0, n - 1)]

\* _continuous_to_discrete_coords(bounds, level, total_bounds): the discrete
\* coordinates of the midpoints
_continuous_to_discrete_coords(bnds, level, total_bounds) ==
    LET minx == total_bounds[1]
        miny == total_bounds[2]
        maxx == total_bounds[3]
        maxy == total_bounds[4]
        twice_mid_x == [i \in 1 .. Len(bnds) |-> bnds[i].minx + bnds[i].maxx]
        twice_mid_y == [i \in 1 .. Len(bnds) |-> bnds[i].miny + bnds[i].maxy]
        x_discrete == _continuous_to_discrete(twice_mid_x, <<minx, maxx>>, 2 ^ level)
        y_discrete == _continuous_to_discrete(twice_mid_y, <<miny, maxy>>, 2 ^ level)
    IN  [i \in 1 .. Len(bnds) |-> <<x_discrete[i], y_discrete[i]>>]

\* geoms.bounds: the bounds of every geometry of the column
GeometryArray_bounds(geoms) ==
    [i \in 1 .. Len(geoms._data) |-> bounds(geoms._data[i])]

\* geoms.total_bounds: the bounds of all geometries of the column together
GeometryArray_total_bounds(geoms) ==
    LET b == GeometryArray_bounds(geoms)
    IN  <<SetMin({b[i].minx : i \in 1 .. Len(b)}), SetMin({b[i].miny : i \in 1 .. Len(b)}),
          SetMax({b[i].maxx : i \in 1 .. Len(b)}), SetMax({b[i].maxy : i \in 1 .. Len(b)})>>

\* _hilbert_distance(geoms, total_bounds, level): level <= 16, so no distance
\* reaches the width of uint64
_hilbert_distance(geoms, total_bounds, level) ==
    LET tb == IF total_bounds = None THEN GeometryArray_total_bounds(geoms)
              ELSE total_bounds
        discrete_coords == _continuous_to_discrete_coords(GeometryArray_bounds(geoms),
                                                          level, tb)
    IN  NdArray1([i \in 1 .. Len(geoms._data) |->
                    _xy2d(level, discrete_coords[i][1], discrete_coords[i][2])])

(***************************************************************************)
(* The curve machine: distances of cells of the grid of a level.           *)
(***************************************************************************)
Cells(level) == (0 .. (2 ^ level) - 1) \X (0 .. (2 ^ level) - 1)

HilbertInit ==
    /\ sindex = NoObject
    /\ heap = <<>>
    /\ arrays = <<>>
    /\ call = [op |-> "idle"]
    /\ ret = NoObject

\* _xy2d(level, x, y)
Xy2d ==
    /\ ret = NoObject
    /\ \E level \in 1 .. MaxLevel :
         \E cell \in Cells(level) :
            /\ call' = [op |-> "_xy2d", level |-> level, cell |-> cell]
            /\ ret' = Num(_xy2d(level, cell[1], cell[2]))
    /\ UNCHANGED <<sindex, heap, arrays>>

\* _hilbert_distance(geoms, total_bounds, level) for points at cells of the
\* grid, total_bounds being the grid
HilbertDistance ==
    /\ ret = NoObject
    /\ \E level \in 1 .. MaxLevel :
         \E cells \in SeqsOf(Cells(level), 1, MaxCells) :
            /\ call' = [op |-> "_hilbert_distance", level |-> level, cells |-> cells]
            /\ ret' = _hilbert_distance(
                          GeometryArrayOver([i \in 1 .. Len(cells) |->
                                                Point(cells[i][1], cells[i][2])]),
                          <<0, 0, (2 ^ level) - 1, (2 ^ level) - 1>>, level)
    /\ UNCHANGED <<sindex, heap, arrays>>

HilbertNext == Xy2d \/ HilbertDistance \/ Return

SpecHilbert == HilbertInit /\ [][HilbertNext]_vars

(***************************************************************************)
(* Reading a result.                                                       *)
(***************************************************************************)
Range(q) == {q[k] : k \in 1 .. Len(q)}

\* the (input index, tree index) pairs of a result
ResultPairs(r) ==
    IF r.kind = "ndarray" /\ r.ndim = 2
    THEN {<<r.rows[1][k], r.rows[2][k]>> : k \in 1 .. Len(r.rows[2])}
    ELSE IF r.kind = "DataFrame" THEN Range(r.rows)
    ELSE {}

\* the tree indices of a result
TreeIndices(r) ==
    IF r.kind = "ndarray" /\ r.ndim = 1 THEN Range(r.data)
    ELSE IF r.kind = "tuple" THEN {pr[2] : pr \in ResultPairs(r.items[1])}
    ELSE {pr[2] : pr \in ResultPairs(r)}

ArrayLike(g) == g.kind \in {"list", "ndarray", "GeometryArray"}
ArgItems(g) ==
    IF g.kind = "list" THEN g.items
    ELSE IF g.kind = "ndarray" THEN g.data
    ELSE g._data

\* the arguments of the query are ones the documentation accepts
AcceptedOptions ==
    /\ call.predicate \in PREDICATES
    /\ call.predicate = Str("dwithin") => call.distance # None
    /\ call.output_format \in {"tuple", "pandas"}

\* the tree positions whose bounding box meets the bounding box of g
BoxHits(g) ==
    {j \in Positions(sindex.geometries) :
        /\ Indexed(g)
        /\ Indexed(At(sindex.geometries, j))
        /\ BoxesIntersect(bounds(g), bounds(At(sindex.geometries, j)))}

(***************************************************************************)
(* The claims about the spatial index.                                     *)
(***************************************************************************)

\* C5: an index built from an array of length n has size n, whatever empty or
\* missing entries the array has: such an entry keeps its position as a
\* placeholder, and every other position of the tree holds the geometry at that
\* position of the array.
C5_SizeIsArrayLength ==
    /\ size(sindex) = Len(sindex.geometries)
    /\ Len(sindex._tree.items) = Len(sindex.geometries)
    /\ \A i \in 1 .. Len(sindex.geometries) :
           sindex._tree.items[i] =
               IF Indexed(sindex.geometries[i]) THEN sindex.geometries[i] ELSE None
    /\ call.op = "size" => ret = Num(Len(sindex.geometries))

\* C6: no tree index that query(), nearest() or intersection() returns is the
\* position of an empty or missing entry of the array the index was built from.
C6_NoPlaceholderReturned ==
    (call.op \in {"query", "nearest", "intersection"} /\ ret.kind # "raise") =>
        \A j \in TreeIndices(ret) :
            /\ j \in Positions(sindex.geometries)
            /\ Indexed(At(sindex.geometries, j))

C6_Witness ==
    /\ call.op = "query"
    /\ call.predicate # None
    /\ ret.kind = "ndarray"
    /\ TreeIndices(ret) # {}
    /\ \E i \in 1 .. Len(sindex.geometries) : ~Indexed(sindex.geometries[i])

\* C7: a query with an array-like input that has missing or empty entries is
\* answered, not refused; no pair of the answer has such an entry as its input
\* index, and every other entry is paired with all the tree positions it matches.
C7_NullInputEntriesNeverMatch ==
    (/\ call.op = "query"
     /\ ArrayLike(call.geometry)
     /\ AcceptedOptions
     /\ \E i \in 1 .. Len(ArgItems(call.geometry)) : ~Indexed(ArgItems(call.geometry)[i]))
    =>
        /\ ret.kind # "raise"
        /\ \A pr \in ResultPairs(ret) : Indexed(At(ArgItems(call.geometry), pr[1]))
        /\ ~call.sort =>
               \A i \in Positions(ArgItems(call.geometry)), j \in Positions(sindex.geometries) :
                   STRtree_match(At(ArgItems(call.geometry), i), At(sindex.geometries, j),
                                 call.predicate, call.distance)
                       => <<i, j>> \in ResultPairs(ret)

\* C8: without a predicate, query(g) for a single geometry g returns exactly the
\* positions of the tree geometries whose bounding box meets that of g, each once;
\* over the tree [(0,0), (5,5)] the rectangle (-1,-1,1,1) gives [0] and the
\* rectangle (-10,-10,10,10) gives [0, 1].
C8_NoPredicateIsBoxQuery ==
    (/\ call.op = "query"
     /\ BaseGeometry(call.geometry)
     /\ call.predicate = None
     /\ call.output_format = "tuple")
    =>
        /\ ret.kind = "ndarray"
        /\ ret.ndim = 1
        /\ Range(ret.data) = BoxHits(call.geometry)
        /\ Len(ret.data) = Cardinality(BoxHits(call.geometry))
        /\ (sindex.geometries = <<Point(0, 0), Point(5, 5)>>
               /\ call.geometry = box(-1, -1, 1, 1)) => ret = NdArray1(<<0>>)
        /\ (sindex.geometries = <<Point(0, 0), Point(5, 5)>>
               /\ call.geometry = box(-10, -10, 10, 10)) => ret = NdArray1(<<0, 1>>)

\* the answer to the same query made without a predicate
SameQueryWithoutPredicate ==
    query(sindex, call.geometry, None, call.sort, call.distance, call.output_format)

\* C9 as stated: for every predicate, dwithin with any distance included, the tree
\* indices of query(g, predicate) are among those of query(g, predicate=None).
C9_PredicateResultWithinBoxResult ==
    (call.op = "query" /\ call.predicate # None /\ ret.kind # "raise") =>
        TreeIndices(ret) \subseteq TreeIndices(SameQueryWithoutPredicate)

\* C9 as amended: for every predicate other than dwithin, and for dwithin with
\* distance 0, the tree indices of query(g, predicate) are among those of
\* query(g, predicate=None).
C9_TopologicalResultWithinBoxResult ==
    (/\ call.op = "query"
     /\ call.predicate # None
     /\ call.predicate = Str("dwithin") => call.distance = Num(0)
     /\ ret.kind # "raise")
    =>
        TreeIndices(ret) \subseteq TreeIndices(SameQueryWithoutPredicate)

C9_Witness ==
    /\ call.op = "query"
    /\ call.predicate \in {Str(p) : p \in BinaryPredicate}
    /\ ret.kind = "ndarray"
    /\ TreeIndices(ret) # {}
    /\ TreeIndices(ret) # TreeIndices(SameQueryWithoutPredicate)

\* C10: query() of a single geometry returns a 1-D array of tree indices; query()
\* of an array of m geometries returns a 2 x k array, row 0 holding input indices
\* in 0..m-1, row 1 tree indices in 0..size-1, every column being one match.
C10_ResultShape ==
    (call.op = "query" /\ call.output_format = "tuple" /\ ret.kind # "raise") =>
        /\ ret.kind = "ndarray"
        /\ BaseGeometry(call.geometry) =>
               /\ ret.ndim = 1
               /\ Range(ret.data) \subseteq 0 .. (size(sindex) - 1)
        /\ ArrayLike(call.geometry) =>
               /\ ret.ndim = 2
               /\ Len(ret.rows[1]) = Len(ret.rows[2])
               /\ Range(ret.rows[1]) \subseteq Positions(ArgItems(call.geometry))
               /\ Range(ret.rows[2]) \subseteq 0 .. (size(sindex) - 1)
               /\ ~call.sort =>
                      \A pr \in ResultPairs(ret) :
                          STRtree_match(At(ArgItems(call.geometry), pr[1]),
                                        At(sindex.geometries, pr[2]),
                                        call.predicate, call.distance)

\* C3: after every successful set on a column the column holds no cached
\* spatial index, so in every reachable state a cached index, if present, was
\* built from the column's current elements.
C3_CachedIndexIsCurrent ==
    /\ (call.op = "__setitem__" /\ ret = None)
          => arrays[call.self]._sindex = None
    /\ \A id \in Live :
          arrays[id]._sindex # None
             => arrays[id]._sindex.geometries = Data(id)

\* C3, the part about the column that is set: a successful set leaves that
\* column without a cached index.
C3_SetClearsOwnCache ==
    (call.op = "__setitem__" /\ ret = None) => arrays[call.self]._sindex = None

\* C4: has_sindex is False while no index is cached and True once the first
\* access has built one; an access with an index cached returns that index,
\* an access without one returns an index built from the current backing
\* array.
C4_LazyMemoizedIndex ==
    /\ (call.op = "has_sindex" /\ ret # NoObject)
          => ret = Bool(arrays[call.self]._sindex # None)
    /\ (call.op = "sindex" /\ ret # NoObject)
          => /\ ret = arrays[call.self]._sindex
             /\ call.cached # None => ret = call.cached
             /\ call.cached = None => ret.geometries = Data(call.self)

\* the pairs (attribute of a left row, attribute of a right row) whose
\* geometries intersect
IntersectingPairs(left_df, right_df) ==
    {<<left_df.rows[l].attr, right_df.rows[r].attr>> :
        <<l, r>> \in {p \in (1 .. Len(left_df.rows)) \X (1 .. Len(right_df.rows)) :
            /\ Indexed(left_df.rows[p[1]].geometry)
            /\ Indexed(right_df.rows[p[2]].geometry)
            /\ intersects(left_df.rows[p[1]].geometry, right_df.rows[p[2]].geometry)}}

\* C1: sjoin(left, right, how='inner', predicate='intersects') returns a frame
\* whose rows are in one-to-one correspondence with the intersecting pairs:
\* each row carries the attributes of one such pair and no pair is missing.
C1_InnerJoinIsIntersectingPairs ==
    (call.op = "sjoin" /\ ret # NoObject
        /\ call.how = "inner" /\ call.predicate = "intersects")
    => /\ ret.kind = "GeoDataFrame"
       /\ Len(ret.rows) = Cardinality(IntersectingPairs(call.left_df, call.right_df))
       /\ {<<ret.rows[k].left, ret.rows[k].right>> : k \in 1 .. Len(ret.rows)}
             = IntersectingPairs(call.left_df, call.right_df)

\* C2: for how='left' every left row without a match appears exactly once in
\* the output with the right side null (symmetrically for how='right'), every
\* matched pair is kept, and for how='inner' no unmatched row appears.
C2_OuterJoinPadsUnmatchedRows ==
    (call.op = "sjoin" /\ ret # NoObject /\ call.predicate = "intersects")
    => LET pairs == IntersectingPairs(call.left_df, call.right_df)
           lefts == {call.left_df.rows[l].attr : l \in 1 .. Len(call.left_df.rows)}
           rights == {call.right_df.rows[r].attr : r \in 1 .. Len(call.right_df.rows)}
           unmatchedL == {a \in lefts : \A p \in pairs : p[1] # a}
           unmatchedR == {b \in rights : \A p \in pairs : p[2] # b}
           expected == pairs
               \cup (IF call.how = "left" THEN {<<a, None>> : a \in unmatchedL} ELSE {})
               \cup (IF call.how = "right" THEN {<<None, b>> : b \in unmatchedR} ELSE {})
       IN  /\ ret.kind = "GeoDataFrame"
           /\ Len(ret.rows) = Cardinality(expected)
           /\ {<<ret.rows[k].left, ret.rows[k].right>> : k \in 1 .. Len(ret.rows)}
                 = expected

\* the columns of a 2 x k result, in order
PairSeq(r) == [k \in 1 .. Len(r.rows[1]) |-> <<r.rows[1][k], r.rows[2][k]>>]

\* how many columns of a 2 x k result are the pair p
PairCount(r, p) == Cardinality({k \in 1 .. Len(r.rows[1]) : PairSeq(r)[k] = p})

\* the answer to the same query made with sort=False
SameQueryUnsorted ==
    query(sindex, call.geometry, call.predicate, FALSE, call.distance,
          call.output_format)

\* C11: query(input, sort=True) returns the same multiset of (input index, tree
\* index) pairs as query(input, sort=False), in ascending order of the input
\* index and, among equal input indices, of the tree index.
C11_SortKeepsPairs ==
    (/\ call.op = "query"
     /\ call.sort
     /\ call.output_format = "tuple"
     /\ ret.kind = "ndarray")
    =>
        /\ \A p \in ResultPairs(ret) \cup ResultPairs(SameQueryUnsorted) :
               PairCount(ret, p) = PairCount(SameQueryUnsorted, p)
        /\ \A k \in 1 .. Len(ret.rows[1]) - 1 :
               \/ ret.rows[1][k] < ret.rows[1][k + 1]
               \/ /\ ret.rows[1][k] = ret.rows[1][k + 1]
                  /\ ret.rows[2][k] <= ret.rows[2][k + 1]

\* the predicate of the call is not a valid one, or it is dwithin without a distance
RefusedOptions ==
    \/ call.predicate \notin valid_query_predicates(sindex)
    \/ call.predicate = Str("dwithin") /\ call.distance = None

\* C12: query() raises the configuration error (ValueError), and returns no
\* result, whenever the predicate is not in valid_query_predicates or the
\* predicate is dwithin and no distance is given.
C12_InvalidOptionsAreRefused ==
    (call.op = "query" /\ RefusedOptions) => ret = Raise("ValueError")

\* C12, whatever the error: with such options query() returns no result.
C12_InvalidOptionsGiveNoResult ==
    (call.op = "query" /\ RefusedOptions) => ret.kind = "raise"

\* the arguments of the nearest() call are ones the documentation accepts: a
\* geometry, or an array-like of geometries, and no max_distance or a positive one
AcceptedNearestCall ==
    /\ call.op = "nearest"
    /\ \/ Indexed(call.geometry)
       \/ /\ ArrayLike(call.geometry)
          /\ \A i \in 1 .. Len(ArgItems(call.geometry)) :
                 Indexed(ArgItems(call.geometry)[i])
    /\ call.max_distance = None \/ call.max_distance.v > 0

\* C13: nearest(input, return_distance=True) returns the pair (indices,
\* distances): indices is the 2 x k array that return_distance=False returns,
\* distances has length k, and distances[j] is the distance between the input
\* geometry indices[0][j] and the tree geometry indices[1][j].
C13_NearestReturnsDistances ==
    (AcceptedNearestCall /\ call.return_distance)
    =>
        /\ ret.kind = "tuple"
        /\ ret.items[1] = nearest(sindex, call.geometry, call.return_all,
                                  call.max_distance, FALSE, call.exclusive)
        /\ ret.items[1].kind = "ndarray"
        /\ ret.items[1].ndim = 2
        /\ Len(ret.items[2].data) = Len(ret.items[1].rows[1])
        /\ \A j \in 1 .. Len(ret.items[2].data) :
               ret.items[2].data[j] * ret.items[2].data[j] =
                   SqDistance(
                       IF ArrayLike(call.geometry)
                       THEN At(ArgItems(call.geometry), ret.items[1].rows[1][j])
                       ELSE call.geometry,
                       At(sindex.geometries, ret.items[1].rows[2][j]))

\* the attributes of the right rows nearest to the left row l
NearestRights(left_df, right_df, l) ==
    LET D(r) == SqDistance(left_df.rows[l].geometry, right_df.rows[r].geometry)
    IN  {right_df.rows[r].attr : r \in {q \in 1 .. Len(right_df.rows) :
            \A o \in 1 .. Len(right_df.rows) : D(q) <= D(o)}}

\* C14: sjoin_nearest(left, right, how='left') outputs, for a left row with
\* several right rows at the same minimum distance, exactly one row per tied
\* right row: three rows when three right points are equidistant.
C14_NearestTiesAllJoined ==
    (call.op = "sjoin_nearest" /\ call.how = "left" /\ ret # NoObject)
    =>
        /\ ret.kind = "GeoDataFrame"
        /\ \A l \in 1 .. Len(call.left_df.rows) :
               LET out == {k \in 1 .. Len(ret.rows) :
                              ret.rows[k].left = call.left_df.rows[l].attr}
                   tied == NearestRights(call.left_df, call.right_df, l)
               IN  /\ Cardinality(out) = Cardinality(tied)
                   /\ {ret.rows[k].right : k \in out} = tied

\* C15: a non-geometry column name present on both sides is renamed with the
\* suffix (attr becomes attr_left on the left and attr_right on the right, or
\* the configured suffixes), a name present on one side only is not renamed,
\* and the geometry column of a side is never renamed.
C15_CollidingColumnsGetSuffix ==
    call.op = "_process_column_names_with_suffix"
    =>
        LET colliding == (call.left \ {call.left_geometry})
                             \cap (call.right \ {call.right_geometry})
        IN  /\ DOMAIN ret.left = colliding
            /\ DOMAIN ret.right = colliding
            /\ \A name \in colliding :
                   /\ ret.left[name] = name \o "_" \o call.suffixes[1]
                   /\ ret.right[name] = name \o "_" \o call.suffixes[2]

\* C15, the names that are renamed: exactly the non-geometry names present on
\* both sides, whatever they are renamed to.
C15_OnlyCollidingColumnsRenamed ==
    call.op = "_process_column_names_with_suffix"
    =>
        /\ DOMAIN ret.left = (call.left \ {call.left_geometry})
                                 \cap (call.right \ {call.right_geometry})
        /\ DOMAIN ret.right = DOMAIN ret.left

\* the call of _basic_checks breaks a precondition of the join: how is not one
\* of left, right, inner, or index_{lsuffix} or index_{rsuffix} is a column of
\* either frame
BrokenJoinPrecondition ==
    \/ call.how \notin {"left", "right", "inner"}
    \/ \E name \in {"index_" \o call.lsuffix, "index_" \o call.rsuffix} :
           name \in call.left_columns \cup call.right_columns

\* C16: the precondition check of the join raises the configuration error
\* (ValueError) when how is not one of left, right, inner and when
\* index_{lsuffix} or index_{rsuffix} is already a column of either frame; when
\* none of these holds (and no on_attribute is given) it raises nothing.
C16_BasicChecksRefuseConflicts ==
    call.op = "_basic_checks"
    =>
        /\ BrokenJoinPrecondition => ret = Raise("ValueError")
        /\ (~BrokenJoinPrecondition /\ call.on_attribute = None) => ret = None

\* C16, the conflicts the code looks for: index_{lsuffix} among the left
\* columns, index_{rsuffix} among the right columns.
C16_OwnSideConflictsRefused ==
    call.op = "_basic_checks"
    =>
        /\ (\/ call.how \notin {"left", "right", "inner"}
            \/ ("index_" \o call.lsuffix) \in call.left_columns
            \/ ("index_" \o call.rsuffix) \in call.right_columns)
              => ret = Raise("ValueError")
        /\ (~BrokenJoinPrecondition /\ call.on_attribute = None) => ret = None

(***************************************************************************)
(* The claims about clip.                                                  *)
(***************************************************************************)

\* the mask of the call is a frame or a series whose CRS is given and is not
\* the CRS of the data
MaskCrsDiffers ==
    /\ call.mask.kind \in {"GeoDataFrame", "GeoSeries"}
    /\ call.mask.crs # None
    /\ call.mask.crs # call.gdf.crs

\* C17: clip(data, mask) fails with the CRS mismatch error (the ValueError of
\* crs_mismatch_error), and returns no result, whenever the mask carries a CRS
\* that is not equal to the CRS of data.
C17_CrsMismatchIsRefused ==
    (call.op = "clip" /\ MaskCrsDiffers) => ret = Raise("ValueError")

\* the shape a mask stands for: the polygon, the rectangle of a 4-element
\* bounding box, the union of the geometries of a frame or series
MaskShape(mask) ==
    IF mask.kind \in {"GeoDataFrame", "GeoSeries"} THEN unary_union(_get_geometry(mask))
    ELSE IF mask.kind \in {"list", "tuple"}
    THEN box(mask.items[1], mask.items[2], mask.items[3], mask.items[4])
    ELSE mask

\* a call that clips a frame by a mask whose CRS, if any, is that of the frame
ClipsFrame ==
    /\ call.op \in {"clip", "_clip_gdf_with_mask"}
    /\ call.gdf.kind = "GeoDataFrame"
    /\ call.op = "clip" => ~MaskCrsDiffers /\ ~call.keep_geom_type

\* the same call made on the frame r
ClipAgain(r) ==
    IF call.op = "clip" THEN clip(r, call.mask, call.keep_geom_type, call.sort)
    ELSE _clip_gdf_with_mask(r, call.mask, call.sort)

\* C18: clip is idempotent: for every data and every mask form (polygon, frame
\* of polygons, 4-element bounding box) clip(data, mask) is a frame, and
\* clipping that frame by the same mask gives it back, rows, index labels,
\* columns and geometries.
C18_ClipIsIdempotent ==
    ClipsFrame =>
        /\ ret.kind = "GeoDataFrame"
        /\ ClipAgain(ret) = ret

\* C19: clip of a frame returns a frame with exactly the columns of data: the
\* rows kept are those whose intersection with the mask is not empty, each
\* once and under its index label, with its non-geometry values unchanged and
\* the intersection as its geometry; no column of the mask is added.
C19_ClipKeepsColumnsAndRows ==
    ClipsFrame =>
        LET gdf == call.gdf
            shape == MaskShape(call.mask)
            cut(k) == geom_intersection(gdf.data["geometry"][k], shape)
            kept == {k \in 1 .. Len(gdf.index) : ~is_empty(cut(k))}
        IN  /\ ret.kind = "GeoDataFrame"
            /\ ret.columns = gdf.columns
            /\ Len(ret.index) = Cardinality(kept)
            /\ {ret.index[j] : j \in 1 .. Len(ret.index)} = {gdf.index[k] : k \in kept}
            /\ \A j \in 1 .. Len(ret.index) : \A k \in kept :
                   ret.index[j] = gdf.index[k] =>
                       /\ ret.data["attr"][j] = gdf.data["attr"][k]
                       /\ ret.data["geometry"][j] = cut(k)

\* C19, the rows: _clip_gdf_with_mask keeps exactly the index labels of the
\* rows whose intersection with the mask is not empty, each once, and a mask
\* disjoint from every row gives no row.
C19_RowsKeptByIntersection ==
    (call.op = "_clip_gdf_with_mask" /\ ret.kind = "GeoDataFrame") =>
        LET gdf == call.gdf
            shape == MaskShape(call.mask)
            kept == {k \in 1 .. Len(gdf.index) :
                        ~is_empty(geom_intersection(gdf.data["geometry"][k], shape))}
        IN  /\ Len(ret.index) = Cardinality(kept)
            /\ {ret.index[j] : j \in 1 .. Len(ret.index)} = {gdf.index[k] : k \in kept}


(***************************************************************************)
(* The claims about overlay.                                               *)
(***************************************************************************)

\* C20: overlay() with a how that is not one of intersection, union, identity,
\* symmetric_difference, difference raises the configuration error
\* (ValueError) before any geometric computation: no validity repair, no
\* validity check and no set operation has run, and the frames are as passed.
C20_UnknownHowFailsFirst ==
    (call.op = "overlay" /\ call.how \notin OverlayHows) =>
        /\ ret = Raise("ValueError")
        /\ call.ran = <<>>
        /\ call.df1_after = call.df1
        /\ call.df2_after = call.df2

\* C20, the error and the set operations: with such a how the call raises
\* ValueError and runs none of the set operations.
C20_UnknownHowIsRefused ==
    (call.op = "overlay" /\ call.how \notin OverlayHows) =>
        /\ ret = Raise("ValueError")
        /\ \A k \in 1 .. Len(call.ran) : call.ran[k] \in {"make_valid", "is_valid"}


\* the geometries of the rows of a result, in row order (no geometry for a
\* result that is not a frame or has no active geometry column)
RowGeometries(r) ==
    IF r.kind # "GeoDataFrame" THEN <<>>
    ELSE IF _get_geometry(r).kind = "raise" THEN <<>>
    ELSE _get_geometry(r).data

\* how many rows of a result have the geometry g
GeometryCount(r, g) ==
    Cardinality({k \in 1 .. Len(RowGeometries(r)) : RowGeometries(r)[k] = g})

\* the inputs of the call can be overlaid: make_valid repairs them, or they are valid
OverlayInputsValid ==
    \/ call.make_valid
    \/ /\ series_is_valid_all(_get_geometry(call.df1))
       /\ series_is_valid_all(_get_geometry(call.df2))

\* C21: for any two frames overlay(how='union') returns a frame of rows with
\* geometries, and its rows are exactly the rows of overlay(how='intersection'),
\* plus the rows of the left-only difference, plus the rows of the right-only
\* difference (the difference with the frames swapped): every geometry occurs
\* in the union as often as in the three parts together.
C21_UnionIsIntersectionPlusDifferences ==
    (call.op = "overlay" /\ call.how = "union" /\ OverlayInputsValid) =>
        \E parts \in {<<overlay(call.df1, call.df2, "intersection",
                                call.keep_geom_type, call.make_valid).ret,
                        overlay(call.df1, call.df2, "difference",
                                call.keep_geom_type, call.make_valid).ret,
                        overlay(call.df2, call.df1, "difference",
                                call.keep_geom_type, call.make_valid).ret>>} :
            /\ ret.kind = "GeoDataFrame"
            /\ _get_geometry(ret).kind = "GeoSeries"
            /\ \A i \in 1 .. 3 : parts[i].kind = "GeoDataFrame"
            /\ Len(ret.index) = Len(parts[1].index) + Len(parts[2].index)
                                    + Len(parts[3].index)
            /\ \A k \in 1 .. Len(RowGeometries(ret)) :
                   GeometryCount(ret, RowGeometries(ret)[k]) =
                       GeometryCount(parts[1], RowGeometries(ret)[k])
                       + GeometryCount(parts[2], RowGeometries(ret)[k])
                       + GeometryCount(parts[3], RowGeometries(ret)[k])
            /\ \A k \in 1 .. Len(RowGeometries(parts[1])) :
                   GeometryCount(ret, RowGeometries(parts[1])[k]) > 0

\* C29: overlay(df1, df2, ...) never modifies its inputs: whether it returns
\* or raises, and for both values of make_valid, the geometries, the columns
\* and the active geometry column name of df1 and df2 after the call are those
\* before it.
C29_OverlayLeavesInputs ==
    call.op = "overlay" =>
        /\ call.df1_after = call.df1
        /\ call.df2_after = call.df2

\* C29, without repair: with make_valid=False the two frames are as before.
C29_NoRepairLeavesInputs ==
    (call.op = "overlay" /\ ~call.make_valid) =>
        /\ call.df1_after = call.df1
        /\ call.df2_after = call.df2


(***************************************************************************)
(* The claims about the WKB codec.                                         *)
(***************************************************************************)

\* C22: for every column col, columns with missing elements included,
\* from_wkb(to_wkb(col)) succeeds with the default on_invalid and gives a
\* column of the same length whose element i equals col[i], missing exactly
\* where col has a missing element.
C22_WkbRoundTrip ==
    call.op = "to_wkb" =>
        \E back \in {from_wkb(ret, None, "raise")} :
            /\ back.ret.kind = "GeometryArray"
            /\ back.warnings = 0
            /\ Len(back.ret._data) = Len(call.geoms._data)
            /\ \A i \in 1 .. Len(call.geoms._data) :
                   /\ back.ret._data[i] = call.geoms._data[i]
                   /\ back.ret._data[i] = None <=> call.geoms._data[i] = None

C22_Witness ==
    /\ call.op = "to_wkb"
    /\ ret.kind = "ndarray"
    /\ \E i, j \in 1 .. Len(call.geoms._data) :
           /\ call.geoms._data[i] = None
           /\ ret.data[i] = None
           /\ call.geoms._data[j].kind = "Polygon"
           /\ ret.data[j].kind = "bytes"
           /\ from_wkb(ret, None, "raise").ret._data[j] = call.geoms._data[j]

\* the elements of the input of the from_wkb call
WkbItems == IF call.data.kind = "list" THEN call.data.items ELSE call.data.data

\* the element i of the input cannot be decoded
InvalidAt(i) == wkb_loads(WkbItems[i]).kind = "raise"

\* C23: from_wkb over an input of length n: with on_invalid='raise' an invalid
\* element raises and no column is returned; with 'warn' the result has length
\* n, holds None at the invalid positions and one warning is emitted per
\* invalid element; with 'ignore' the result is the same and no warning is
\* emitted; in the three modes a valid element is decoded at its own position.
C23_OnInvalidModes ==
    call.op = "from_wkb" =>
        LET n == Len(WkbItems)
            invalid == {i \in 1 .. n : InvalidAt(i)}
        IN  IF call.on_invalid = "raise" /\ invalid # {}
            THEN ret = Raise("ValueError")
            ELSE /\ ret.kind = "GeometryArray"
                 /\ Len(ret._data) = n
                 /\ \A i \in invalid : ret._data[i] = None
                 /\ \A i \in (1 .. n) \ invalid :
                        /\ ret._data[i] = wkb_loads(WkbItems[i])
                        /\ WkbItems[i] # None => ret._data[i] # None
                 /\ call.warnings =
                        IF call.on_invalid = "warn" THEN Cardinality(invalid) ELSE 0

C23_Witness ==
    /\ call.op = "from_wkb"
    /\ call.on_invalid = "warn"
    /\ ret.kind = "GeometryArray"
    /\ call.warnings = 1
    /\ Len(WkbItems) = 2
    /\ InvalidAt(1)
    /\ ret._data[1] = None
    /\ ret._data[2] = box(0, 0, 4, 4)


(***************************************************************************)
(* The claims about construction, assignment and the CRS of a column.      *)
(***************************************************************************)

\* the input of from_shapely has one dimension: it is not a list of lists
OneDimensional(data) ==
    ~(Len(data.items) > 0 /\ \A i \in 1 .. Len(data.items) : data.items[i].kind = "list")

\* every element of the input is a geometry or None
AllGeometriesOrNone(data) ==
    \A i \in 1 .. Len(data.items) : data.items[i] = None \/ BaseGeometry(data.items[i])

\* C24: from_shapely returns a column, holding the elements of the input,
\* exactly when the input is 1-dimensional and every element is a geometry or
\* None; a multi-dimensional input raises ValueError and an element of any
\* other type raises TypeError, and neither creates a column or an array.
C24_ConstructionValidates ==
    [][(call'.op = "from_shapely" /\ ret' # NoObject) =>
        /\ (OneDimensional(call'.data) /\ AllGeometriesOrNone(call'.data)) <=> ret'.kind = "ref"
        /\ ret'.kind = "ref" =>
               /\ arrays[ret'.id] = NoObject
               /\ DataIn(heap', arrays'[ret'.id]) = call'.data.items
        /\ ~OneDimensional(call'.data) => ret' = Raise("ValueError")
        /\ (OneDimensional(call'.data) /\ ~AllGeometriesOrNone(call'.data))
               => ret' = Raise("TypeError")
        /\ ret'.kind = "raise" => (arrays' = arrays /\ heap' = heap)]_vars

C24_Witness ==
    /\ call.op = "from_shapely"
    /\ ret.kind = "ref"
    /\ Len(call.data.items) = 2
    /\ call.data.items[1] = None
    /\ BaseGeometry(call.data.items[2])
    /\ Data(ret.id) = call.data.items


\* the value of a set is a column or a list
ColumnOrList(value) == value.kind \in {"ref", "list"}

\* every leaf of a (nested) list is a geometry or None
LeavesAreGeometries(value) ==
    \A i \in 1 .. Len(value.items) :
        IF value.items[i].kind = "list"
        THEN AllGeometriesOrNone(value.items[i])
        ELSE value.items[i] = None \/ BaseGeometry(value.items[i])

\* a geometry, a null, or an array-like of geometries and nulls
GeometryLike(value) ==
    \/ BaseGeometry(value)
    \/ isna(value)
    \/ value.kind = "ref"
    \/ value.kind = "list" /\ LeavesAreGeometries(value)

\* the step is a call of __setitem__ whose key check_array_indexer accepts
SetStep ==
    /\ call'.op = "__setitem__"
    /\ ret' # NoObject
    /\ check_array_indexer(arrays[call'.self], call'.key).kind # "raise"

C26_CrsReadsWhatWasSet ==
    /\ (call.op = "from_shapely" /\ ret.kind = "ref")
           => crs_getter(arrays[ret.id]) = call.crs
    /\ (call.op = "crs.setter" /\ ret = None)
           => crs_getter(arrays[call.self]) = call.value

\* C26, the rest: the CRS read is None or a CRS the caller gave, and setting the
\* CRS changes no element of any array.
C26_CrsSetLeavesElements ==
    [][/\ (call'.op = "crs.setter" /\ ret' # NoObject) => heap' = heap
       /\ (call'.op = "crs" /\ ret' # NoObject) => ret' \in ColumnCRSs]_vars


(***************************************************************************)
(* The claim about _geom_predicate_query.                                  *)
(***************************************************************************)

\* predicate(a, b) for two geometries of a join
PredicateHolds(predicate, a, b, distance) ==
    /\ Indexed(a)
    /\ Indexed(b)
    /\ Holds(predicate.v, a, b, IF distance = None THEN 0 ELSE distance.v)

\* the (left position, right position) pairs for which the predicate of the
\* call holds, left geometry first
LeftRightMatches ==
    {pr \in Positions(call.left_df.rows) \X Positions(call.right_df.rows) :
        PredicateHolds(call.predicate,
                       At(call.left_df.rows, pr[1]).geometry,
                       At(call.right_df.rows, pr[2]).geometry,
                       call.distance)}

\* C27: _geom_predicate_query(left_df, right_df, predicate) returns exactly the
\* pairs (_key_left, _key_right) of a position in left_df and a position in
\* right_df for which predicate(left geometry, right geometry) holds.
C27_PairsAreLeftRightMatches ==
    (/\ call.op = "_geom_predicate_query"
     /\ ret # NoObject
     /\ call.on_attribute = None
     /\ ~(call.predicate = Str("dwithin") /\ call.distance = None))
        => /\ ret.kind = "DataFrame"
           /\ ret.columns = <<"_key_left", "_key_right">>
           /\ Range(ret.rows) = LeftRightMatches


\* C28: a set on one column changes no element of any other column, whether
\* the other column was obtained by slicing, by wrapping or independently.
C28_SetChangesOnlyItsColumn ==
    [][(call'.op = "__setitem__" /\ ret' # NoObject) =>
        \A id \in Live \ {call'.self} :
            DataIn(heap', arrays'[id]) = DataIn(heap, arrays[id])]_vars

\* C28, for columns that were built from separate inputs: a set on one column
\* changes no element of a column over another array.
C28_SeparateArraysAreIndependent ==
    [][(call'.op = "__setitem__" /\ ret' # NoObject) =>
        \A id \in Live :
            arrays[id].buf # arrays[call'.self].buf
                => DataIn(heap', arrays'[id]) = DataIn(heap, arrays[id])]_vars


(***************************************************************************)
(* The claim about the curve.                                              *)
(***************************************************************************)

\* two cells differ by exactly 1 in exactly one coordinate
EdgeAdjacent(a, b) ==
    \/ a[1] = b[1] /\ Abs(a[2] - b[2]) = 1
    \/ a[2] = b[2] /\ Abs(a[1] - b[1]) = 1

\* C30: the distances _hilbert_distance computes for cells of the grid of a
\* level lie in 0 .. 4^level - 1, differ for different cells, and two cells at
\* consecutive distances are edge-adjacent.
C30_DistanceFollowsHilbertCurve ==
    (call.op = "_hilbert_distance" /\ ret # NoObject) =>
        /\ ret.kind = "ndarray"
        /\ \A i \in 1 .. Len(call.cells) : ret.data[i] \in 0 .. (4 ^ call.level) - 1
        /\ \A i, j \in 1 .. Len(call.cells) :
              /\ ret.data[i] = ret.data[j] <=> call.cells[i] = call.cells[j]
              /\ ret.data[j] = ret.data[i] + 1
                    => EdgeAdjacent(call.cells[i], call.cells[j])

\* C30, the part about the mapping: _xy2d maps the cells of a level one-to-one
\* onto 0 .. 4^level - 1.
C30_DistancesAreBijective ==
    (call.op = "_xy2d" /\ ret # NoObject) =>
        /\ ret.v \in 0 .. (4 ^ call.level) - 1
        /\ \A other \in Cells(call.level) :
              _xy2d(call.level, other[1], other[2]) = ret.v => other = call.cell
        /\ \A d \in 0 .. (4 ^ call.level) - 1 :
              \E c \in Cells(call.level) : _xy2d(call.level, c[1], c[2]) = d

====
